---- MODULE Spec2Model ----
(***************************************************************************)
(* Model of the task board (rprosser1426/task-app): the client page        *)
(* src/app/tasks/page.tsx (TasksClient and its helpers) and the route      *)
(* handlers src/app/api/tasks/route.ts and                                 *)
(* src/app/api/task-assignments/route.ts with the session check of         *)
(* src/lib/server/getSession.ts, over the task_assignments and tasks       *)
(* tables.                                                                 *)
(*                                                                         *)
(* Specifications:                                                         *)
(*   SpecMerge     preserveDoneAssignments on drawn pairs of snapshots     *)
(*   SpecDue       dueBucket and matchesDueFilter on drawn due dates,      *)
(*                 clock readings and viewer timezones                     *)
(*   SpecView      the lists and buckets the page derives from a drawn     *)
(*                 store, session and filters                              *)
(*   SpecApi       the route handlers under requests of any signed-in      *)
(*                 caller, interleaved at their database calls             *)
(*   Spec          the page under assignment changes and completions,      *)
(*                 with the handlers its requests run                      *)
(*   SpecEdit      the page under edits and completions                    *)
(*   SpecComplete  SpecEdit where Reopen is never pressed and no answer    *)
(*                 is lost                                                 *)
(*   SpecReopen    the page under completions and reopens, one at a time,  *)
(*                 with edits started while nothing is in flight           *)
(*   SpecDelete    the page under deletions and assignment changes         *)
(*   SpecDup       complete, reopen and set_owner over tables that hold    *)
(*                 several rows for one pair                               *)
(*   SpecGet       GET /api/tasks for callers of both roles next to        *)
(*                 assignee syncs                                          *)
(*   SpecCreate    POST /api/tasks with any title, due date and assignees  *)
(*   SpecOwner     create, set_owner and sync requests                     *)
(*   SpecPatch     PATCH /api/tasks with any subset of the fields          *)
(*   SpecSync      the page under assignment changes made one at a time    *)
(*   SpecSyncFair  SpecSync where every remote call returns and React      *)
(*                 commits queued state                                    *)
(*   SpecOrphan    create, sync and delete requests                        *)
(*   SpecAuth      requests of every handler with any session cookie,      *)
(*                 while the clock runs                                    *)
(*   SpecAdd       the page under addTask                                  *)
(*                                                                         *)
(* A timestamp read from a clock is the value "ts"; the one the merge      *)
(* makes up when neither side has one is "merge_now".  Where the value of   *)
(* a time matters (due dates) an instant is a number of half hours since   *)
(* a UTC midnight, and a timezone is the half hours local time is ahead.   *)
(***************************************************************************)
EXTENDS Integers, Sequences, FiniteSets, TLC

VARIABLES
  m_prev, m_next, m_out, m_pc,   \* preserveDoneAssignments applied to drawn snapshots
  due_at, bucket, matches, d_pc, \* dueBucket / matchesDueFilter applied to a drawn due date
  now, tz,                       \* the clock reading and the viewer's timezone
  dueFilter,                     \* page state: useState<DueFilter>
  categoryFilter, searchText,    \* page state: the category and search filters
  expandedTaskId,                \* page state: the task whose card is open, or null
  v_open, v_closed,              \* the memos openTasks and closedTasks
  v_unassigned, v_byAssignee,    \* the memos unassignedTasks and tasksByAssignee
  v_openCount, v_doneCount,      \* Open: / Done: of each user's bucket in the Team view
  v_pc,
  db_tasks, db_asg,              \* the tasks and task_assignments tables
  db_pool,                       \* the ids the tasks table has yet to hand out
  ops,                           \* requests in flight, each with its position
  session,                       \* the session the page's cookie names
  tasks,                         \* page state: useState<TaskRow[]>
  assignmentDraft,               \* page state: taskId -> assignee ids
  savingAssignments,             \* page state: the task ids whose flag is true
  shownSaving,                   \* savingAssignments as the committed render's closures hold it
  addLockRef,                    \* page state: useRef(false), the lock of addTask
  errorMsg                       \* page state: string | null

vars == <<m_prev, m_next, m_out, m_pc, due_at, bucket, matches, d_pc, now, tz, dueFilter,
          categoryFilter, searchText, expandedTaskId, v_open, v_closed, v_unassigned,
          v_byAssignee, v_openCount, v_doneCount, v_pc, db_tasks, db_asg, db_pool, ops, session, tasks,
          assignmentDraft, savingAssignments, shownSaving, addLockRef,
          errorMsg>>

mergeVars == <<m_prev, m_next, m_out, m_pc>>
dueVars == <<due_at, bucket, matches, d_pc, now, tz, dueFilter>>
viewVars == <<categoryFilter, searchText, expandedTaskId, v_open, v_closed, v_unassigned,
              v_byAssignee, v_openCount, v_doneCount, v_pc>>
pureVars == <<mergeVars, dueVars, viewVars>>
sysVars == <<db_tasks, db_asg, db_pool, ops, session, tasks, assignmentDraft,
             savingAssignments, shownSaving, addLockRef, errorMsg>>

----------------------------------------------------------------------------
(* Values *)

NULL == "null"
Users == {"u1", "u2"}
Tasks == {"t1", "t2"}
UserOrder == <<"u1", "u2">>
TaskOrder == <<"t2", "t1">>      \* .order("created_at", { ascending: false })

\* AssignmentRow as the page reads it
AssignmentRow(u, st, ca, note) ==
  [assignee_id |-> u, status |-> st, completed_at |-> ca, completion_note |-> note]

\* TaskRow as the page reads it
TaskRow(t, title, asg) == [id |-> t, title |-> title, task_assignments |-> asg]

SeqToSet(s) == {s[i] : i \in 1..Len(s)}

----------------------------------------------------------------------------
(* preserveDoneAssignments, page.tsx 2485-2523 *)

\* prevMap.get(t.id): Map.set overwrites, so the last task of prev with that id counts
PrevTaskIndex(prev, tid) ==
  LET hits == {i \in 1..Len(prev) : prev[i].id = tid}
  IN IF hits = {} THEN 0 ELSE CHOOSE i \in hits : \A j \in hits : j <= i

\* inner.get(a.assignee_id): again the last assignment of that assignee
PrevAssignmentIndex(pas, uid) ==
  LET hits == {i \in 1..Len(pas) : pas[i].assignee_id = uid}
  IN IF hits = {} THEN 0 ELSE CHOOSE i \in hits : \A j \in hits : j <= i

\* a ?? b ?? c
Coalesce3(a, b, c) == IF a # NULL THEN a ELSE IF b # NULL THEN b ELSE c

\* mutant: a row that prev holds complete is taken from prev as it is
MergeAssignment_preferPrev(pas, a) ==
  LET k == PrevAssignmentIndex(pas, a.assignee_id)
  IN IF k = 0 THEN a
     ELSE IF pas[k].status = "complete" THEN pas[k] ELSE a

MergeAssignment(pas, a) ==
  LET k == PrevAssignmentIndex(pas, a.assignee_id)
  IN IF k = 0 THEN a
     ELSE LET pa == pas[k]
              prevWasDone == pa.status = "complete"
              nextSaysDone == a.status = "complete"
          IN IF prevWasDone /\ ~nextSaysDone
             THEN [a EXCEPT !.status = "complete",
                            !.completed_at = Coalesce3(pa.completed_at, a.completed_at, "merge_now"),
                            !.completion_note = Coalesce3(pa.completion_note, a.completion_note, NULL)]
             ELSE a

MergeTask(prev, t) ==
  LET k == PrevTaskIndex(prev, t.id)
  IN IF k = 0 THEN t
     ELSE [t EXCEPT !.task_assignments =
             [j \in 1..Len(t.task_assignments) |->
                MergeAssignment(prev[k].task_assignments, t.task_assignments[j])]]

\* mutant: the fetched snapshot replaces the store (last writer wins)
preserveDoneAssignments_lastWriterWins(prev, next) == next

\* mutant: a store that holds tasks keeps them, whatever was fetched
preserveDoneAssignments_keepsPrev(prev, next) == IF prev = <<>> THEN next ELSE prev

preserveDoneAssignments(prev, next) ==
  IF Len(prev) = 0 THEN next
  ELSE [i \in 1..Len(next) |-> MergeTask(prev, next[i])]

----------------------------------------------------------------------------
(* Snapshots drawn for the merge: per task absent or present, per assignee   *)
(* absent, open, complete with a timestamp and note, or complete without.    *)

AssignmentChoices(u) ==
  { <<>>,
    << AssignmentRow(u, "open", NULL, NULL) >>,
    << AssignmentRow(u, "complete", "ts", "note") >>,
    << AssignmentRow(u, "complete", NULL, NULL) >> }

AssignmentLists == { a \o b : a \in AssignmentChoices("u1"), b \in AssignmentChoices("u2") }

TaskChoices(t, titles) ==
  { <<>> } \cup { << TaskRow(t, ti, a) >> : ti \in titles, a \in AssignmentLists }

Snapshots(titles) == { x \o y : x \in TaskChoices("t2", titles), y \in TaskChoices("t1", titles) }

MergeInit ==
  /\ m_prev \in Snapshots({"b"})
  /\ m_next \in Snapshots({"a"})
  /\ m_out = <<>>
  /\ m_pc = "start"

MergeIdle ==
  /\ m_prev = <<>>
  /\ m_next = <<>>
  /\ m_out = <<>>
  /\ m_pc = "idle"

ApplyMerge ==
  /\ m_pc = "start"
  /\ m_out' = preserveDoneAssignments(m_prev, m_next)
  /\ m_pc' = "done"
  /\ UNCHANGED <<m_prev, m_next>>
  /\ UNCHANGED dueVars /\ UNCHANGED viewVars
  /\ UNCHANGED sysVars

----------------------------------------------------------------------------
(* Due dates: dueBucket, matchesDueFilter *)

TicksPerDay == 48
MaxDay == 2

\* due_at as the tasks table returns it: null, a date (YYYY-MM-DD) or a
\* timestamp with its zone
NoDue == [kind |-> "null", v |-> 0]
DateOnly(day) == [kind |-> "date", v |-> day]
Timestamp(at) == [kind |-> "timestamp", v |-> at]

\* new Date(y, m - 1, d, 23, 59, 59, 999): the last instant of local day d
LocalEndOfDay(day, zone) == (day + 1) * TicksPerDay - 1 - zone

\* new Date("YYYY-MM-DD"): a date-only string read as UTC midnight
UtcMidnight(day) == day * TicksPerDay

\* d.setHours(0, 0, 0, 0): the local midnight at or before the instant
setHours0(at, zone) == ((at + zone) \div TicksPerDay) * TicksPerDay - zone

\* new Date(due_at)
newDate(due) == IF due.kind = "date" THEN UtcMidnight(due.v) ELSE due.v

\* mutant: the date-only string goes through new Date(string)
parseDue_utc(due, zone) ==
  IF due.kind = "date" THEN UtcMidnight(due.v) ELSE due.v

\* the Date that dueBucket makes of a due_at that is not null
parseDue(due, zone) ==
  IF due.kind = "date" THEN LocalEndOfDay(due.v, zone) ELSE newDate(due)

\* due is null, today or past: compared by local day
isDueVisible(due, clock, zone) ==
  IF due.kind = "null" THEN TRUE
  ELSE setHours0(newDate(due), zone) <= setHours0(clock, zone)

\* mutant: the instants are compared, not the days
dueBucket_byInstant(due, clock, zone) ==
  IF due.kind = "null" THEN "no_due"
  ELSE IF parseDue(due, zone) > clock THEN "future"
  ELSE IF parseDue(due, zone) = clock THEN "today"
  ELSE "late"

dueBucket(due, clock, zone) ==
  IF due.kind = "null" THEN "no_due"
  ELSE LET dueDay == setHours0(parseDue(due, zone), zone)
           nowDay == setHours0(clock, zone)
       IN IF dueDay > nowDay THEN "future"
          ELSE IF dueDay = nowDay THEN "today"
          ELSE "late"

\* mutant: every filter but __all__ asks for its own bucket
matchesDueFilter_exact(due, filter, clock, zone) ==
  IF filter = "__all__" THEN TRUE ELSE dueBucket(due, clock, zone) = filter

matchesDueFilter(due, filter, clock, zone) ==
  IF filter = "__all__" THEN TRUE
  ELSE LET b == dueBucket(due, clock, zone)
       IN IF filter = "not_due_yet" THEN b = "future"
          ELSE IF filter = "late_today" THEN b = "today" \/ b = "late"
          ELSE b = filter

DueFilters == {"__all__", "today", "late_today", "late", "no_due", "not_due_yet"}

\* the inputs drawn: dates of days 0..MaxDay, timestamps every six hours and
\* clock readings every half hour of days 0..MaxDay, every timezone from UTC-12
\* to UTC+14
Instants == 0 .. ((MaxDay + 1) * TicksPerDay - 1)
Zones == -24 .. 28
DueValues ==
  {NoDue} \cup {DateOnly(d) : d \in 0..MaxDay}
          \cup {Timestamp(x) : x \in {y \in Instants : y % 12 = 0}}

DueInit ==
  /\ due_at \in DueValues
  /\ now \in Instants
  /\ tz \in Zones
  /\ dueFilter \in DueFilters
  /\ bucket = "none"
  /\ matches = FALSE
  /\ d_pc = "start"

DueIdle ==
  /\ due_at = NoDue
  /\ now = 0
  /\ tz = 0
  /\ dueFilter = "__all__"
  /\ bucket = "none"
  /\ matches = FALSE
  /\ d_pc = "idle"

ViewIdle ==
  /\ categoryFilter = "__all__"
  /\ searchText = <<>>
  /\ expandedTaskId = NULL
  /\ v_open = <<>>
  /\ v_closed = <<>>
  /\ v_unassigned = <<>>
  /\ v_byAssignee = <<>>
  /\ v_openCount = <<>>
  /\ v_doneCount = <<>>
  /\ v_pc = "idle"

PureIdle == MergeIdle /\ DueIdle /\ ViewIdle

ApplyDueBucket ==
  /\ d_pc \in {"start", "bucket"}
  /\ bucket' = dueBucket(due_at, now, tz)
  /\ d_pc' = "bucket"
  /\ UNCHANGED <<due_at, now, tz, dueFilter, matches>>
  /\ UNCHANGED mergeVars /\ UNCHANGED viewVars /\ UNCHANGED sysVars

ApplyMatchesDueFilter ==
  /\ d_pc = "start"
  /\ matches' = matchesDueFilter(due_at, dueFilter, now, tz)
  /\ d_pc' = "matches"
  /\ UNCHANGED <<due_at, now, tz, dueFilter, bucket>>
  /\ UNCHANGED mergeVars /\ UNCHANGED viewVars /\ UNCHANGED sysVars

----------------------------------------------------------------------------
(* The system at rest (used by the specifications of the pure functions) *)

\* a session as getSessionFromCookie returns it, with the resolved profile id
Session(uid, role) == [ok |-> TRUE, uid |-> uid, role |-> role]
NoSession == [ok |-> FALSE, uid |-> NULL, role |-> NULL]
Sessions == {Session("u1", "user"), Session("u2", "admin")}

SysIdle ==
  /\ db_tasks = {}
  /\ db_asg = {}
  /\ db_pool = {}
  /\ ops = <<>>
  /\ session = NoSession
  /\ tasks = <<>>
  /\ assignmentDraft = <<>>
  /\ savingAssignments = {}
  /\ addLockRef = FALSE
  /\ shownSaving = {}
  /\ errorMsg = NULL

InitMerge == MergeInit /\ DueIdle /\ ViewIdle /\ SysIdle
NextMerge == ApplyMerge
SpecMerge == InitMerge /\ [][NextMerge]_vars

InitDue == DueInit /\ MergeIdle /\ ViewIdle /\ SysIdle
NextDue == ApplyDueBucket \/ ApplyMatchesDueFilter
SpecDue == InitDue /\ [][NextDue]_vars

----------------------------------------------------------------------------
(* The views: openTasks, closedTasks, unassignedTasks, tasksByAssignee.     *)
(* A text is a sequence of characters; a null text is the empty one.        *)

\* a task row as the store holds it, with the fields the views read
ViewTaskRow(t, title, due, cat, catName, created, asg) ==
  [id |-> t, title |-> title, note |-> <<>>, due_at |-> due, category_id |-> cat,
   category_name |-> catName, created_at |-> created, task_assignments |-> asg]

toLowerCase(text) == [i \in DOMAIN text |-> IF text[i] = "B" THEN "b" ELSE text[i]]

RECURSIVE trim(_)
trim(text) ==
  IF text = <<>> THEN text
  ELSE IF Head(text) = " " THEN trim(Tail(text))
  ELSE IF text[Len(text)] = " " THEN trim(SubSeq(text, 1, Len(text) - 1))
  ELSE text

includes(hay, needle) ==
  \E i \in 0..(Len(hay) - Len(needle)) : SubSeq(hay, i + 1, i + Len(needle)) = needle

matchesSearch(t, q) ==
  LET needle == toLowerCase(trim(q))
      hay == toLowerCase(t.title \o <<" ">> \o t.note \o <<" ">> \o t.category_name)
  IN IF needle = <<>> THEN TRUE ELSE includes(hay, needle)

\* categoryFilter !== "__all__" && t.category_id !== categoryFilter  (negated)
matchesCategoryFilter(t, cat) == cat = "__all__" \/ t.category_id = cat

\* the index of task.task_assignments.find(a => ids.includes(a.assignee_id)), 0 for none
FindAssignment(task, ids) ==
  LET hits == {j \in 1..Len(task.task_assignments) : task.task_assignments[j].assignee_id \in ids}
  IN IF hits = {} THEN 0 ELSE CHOOSE j \in hits : \A k \in hits : j <= k

isAssignmentDone(task, uid) ==
  LET j == FindAssignment(task, {uid})
  IN j # 0 /\ task.task_assignments[j].status = "complete"

\* [userId, accessCodeId].filter(Boolean): the session names one identity
Candidates == IF session.ok THEN {session.uid} ELSE {}

myAssignmentForTask(task) == FindAssignment(task, Candidates)

\* the rule the memos share: hide future tasks under a specific due filter
HidesFuture(t) ==
  dueFilter # "__all__" /\ dueFilter # "not_due_yet" /\ ~isDueVisible(t.due_at, now, tz)

openTasks ==
  LET Keep(t) ==
        /\ ~(expandedTaskId # NULL /\ t.id # expandedTaskId)
        /\ matchesCategoryFilter(t, categoryFilter)
        /\ matchesSearch(t, searchText)
        /\ ~HidesFuture(t)
        /\ matchesDueFilter(t.due_at, dueFilter, now, tz)
        /\ myAssignmentForTask(t) # 0
        /\ t.task_assignments[myAssignmentForTask(t)].status # "complete"
  IN IF Candidates = {} THEN <<>> ELSE SelectSeq(tasks, Keep)

closedTasks ==
  LET Keep(t) ==
        /\ isDueVisible(t.due_at, now, tz)
        /\ matchesDueFilter(t.due_at, dueFilter, now, tz)
        /\ matchesCategoryFilter(t, categoryFilter)
        /\ matchesSearch(t, searchText)
        /\ myAssignmentForTask(t) # 0
        /\ t.task_assignments[myAssignmentForTask(t)].status = "complete"
  IN IF Candidates = {} THEN <<>> ELSE SelectSeq(tasks, Keep)

\* arr.sort((a, b) => bb - aa): newest first, equal ones in their order
RECURSIVE InsertByCreated(_, _)
InsertByCreated(sorted, t) ==
  IF sorted = <<>> THEN <<t>>
  ELSE IF Head(sorted).created_at >= t.created_at
       THEN <<Head(sorted)>> \o InsertByCreated(Tail(sorted), t)
       ELSE <<t>> \o sorted

RECURSIVE SortByCreated(_)
SortByCreated(list) ==
  IF list = <<>> THEN <<>>
  ELSE InsertByCreated(SortByCreated(SubSeq(list, 1, Len(list) - 1)), list[Len(list)])

\* Array.from(new Map(arr.map(t => [t.id, t])).values()): one entry per id,
\* where the id first stood, holding the last row of that id
DedupeById(list) ==
  LET firsts == {i \in 1..Len(list) : \A j \in 1..(i - 1) : list[j].id # list[i].id}
      Last(id) == CHOOSE i \in 1..Len(list) :
                    list[i].id = id /\ \A j \in (i + 1)..Len(list) : list[j].id # id
      Pick(i) == list[Last(list[i].id)]
      RECURSIVE Walk(_)
      Walk(i) == IF i > Len(list) THEN <<>>
                 ELSE IF i \in firsts THEN <<Pick(i)>> \o Walk(i + 1) ELSE Walk(i + 1)
  IN Walk(1)

unassignedTasks ==
  LET Keep(t) ==
        /\ Len(t.task_assignments) = 0
        /\ matchesCategoryFilter(t, categoryFilter)
        /\ matchesSearch(t, searchText)
        /\ ~HidesFuture(t)
        /\ matchesDueFilter(t.due_at, dueFilter, now, tz)
  IN SortByCreated(SelectSeq(tasks, Keep))

\* the tasks the loop of tasksByAssignee does not skip
Bucketed(t) ==
  /\ ~HidesFuture(t)
  /\ matchesDueFilter(t.due_at, dueFilter, now, tz)
  /\ matchesCategoryFilter(t, categoryFilter)
  /\ matchesSearch(t, searchText)

\* what the loop pushes on map.get(uid): the task once per assignment of uid
RECURSIVE Pushes(_, _, _)
Pushes(list, uid, only) ==
  IF list = <<>> THEN <<>>
  ELSE LET t == Head(list)
           ids == [j \in 1..Len(t.task_assignments) |-> t.task_assignments[j].assignee_id]
           mine == SelectSeq(IF only /\ Len(ids) > 0 THEN <<ids[1]>> ELSE ids, LAMBDA x : x = uid)
       IN (IF Bucketed(t) THEN [j \in 1..Len(mine) |-> t] ELSE <<>>)
            \o Pushes(Tail(list), uid, only)

\* mutant: a task goes to the bucket of its first assignee only
tasksByAssignee_firstOnly(uid) == DedupeById(SortByCreated(Pushes(tasks, uid, TRUE)))

\* tasksByAssignee.get(uid) ?? []
tasksByAssignee(uid) == DedupeById(SortByCreated(Pushes(tasks, uid, FALSE)))

\* mutant: Done counts the tasks some assignee has completed
closedCountForUser_anyone(uid, list) ==
  Len(SelectSeq(list, LAMBDA t : \E u \in Users : isAssignmentDone(t, u)))

openCountForUser(uid, list) == Len(SelectSeq(list, LAMBDA t : ~isAssignmentDone(t, uid)))
closedCountForUser(uid, list) == Len(SelectSeq(list, LAMBDA t : isAssignmentDone(t, uid)))

\* the render: every memo and the counts of the Team view
RenderViews ==
  /\ v_pc = "start"
  /\ v_open' = openTasks
  /\ v_closed' = closedTasks
  /\ v_unassigned' = unassignedTasks
  /\ v_byAssignee' = [u \in Users |-> tasksByAssignee(u)]
  /\ v_openCount' = [u \in Users |-> openCountForUser(u, tasksByAssignee(u))]
  /\ v_doneCount' = [u \in Users |-> closedCountForUser(u, tasksByAssignee(u))]
  /\ v_pc' = "done"
  /\ UNCHANGED <<categoryFilter, searchText, expandedTaskId>>
  /\ UNCHANGED mergeVars /\ UNCHANGED dueVars /\ UNCHANGED sysVars

\* the stores drawn: t2 (the newer) and t1, each absent or present; per
\* assignee no row, an open one or a complete one; due dates of yesterday,
\* today, tomorrow and the day after, or none
ViewAssignments(u) ==
  { <<>>, << AssignmentRow(u, "open", NULL, NULL) >>, << AssignmentRow(u, "complete", "ts", NULL) >> }

ViewAssignmentLists == { a \o b : a \in ViewAssignments("u1"), b \in ViewAssignments("u2") }

ViewDues == {NoDue} \cup {DateOnly(d) : d \in 0..(MaxDay + 1)}

ViewStores ==
  { x \o y :
      x \in {<<>>} \cup { << ViewTaskRow("t2", <<"a">>, due, "c1", <<"c">>, 2, asg) >> :
                            due \in ViewDues, asg \in ViewAssignmentLists },
      y \in {<<>>} \cup { << ViewTaskRow("t1", v[1], due, v[2], v[3], 1, asg) >> :
                            v \in { << <<"a">>, "c1", <<"c">> >>, << <<"B">>, NULL, <<>> >> },
                            due \in ViewDues, asg \in ViewAssignmentLists } }

\* noon of day 1, five hours west of Greenwich
ViewZone == -((5 * TicksPerDay) \div 24)
ViewClock == TicksPerDay + (TicksPerDay \div 2) - ViewZone

InitView ==
  /\ MergeIdle
  /\ due_at = NoDue /\ bucket = "none" /\ matches = FALSE /\ d_pc = "idle"
  /\ now = ViewClock
  /\ tz = ViewZone
  /\ dueFilter \in DueFilters
  /\ categoryFilter \in {"__all__", "c1"}
  /\ searchText \in {<<>>, <<"b", " ">>}
  /\ expandedTaskId \in {NULL, "t2"}
  /\ v_open = <<>> /\ v_closed = <<>> /\ v_unassigned = <<>>
  /\ v_byAssignee = <<>> /\ v_openCount = <<>> /\ v_doneCount = <<>>
  /\ v_pc = "start"
  /\ db_tasks = {} /\ db_asg = {} /\ db_pool = {} /\ ops = <<>>
  /\ session \in Sessions
  /\ tasks \in ViewStores
  /\ assignmentDraft = <<>> /\ savingAssignments = {} /\ addLockRef = FALSE /\ shownSaving = {} /\ errorMsg = NULL

NextView == RenderViews
SpecView == InitView /\ [][NextView]_vars

----------------------------------------------------------------------------
(* The tables.  A task_assignments row has an id; the handlers address rows  *)
(* by (task_id, assignee_id) or by id.  An id is never given twice, so a row *)
(* is named here by its pair and its number among the rows of that pair      *)
(* (RowKey), and a handler that holds the id of a deleted row holds nothing  *)
(* (Step drops it).  The table has a unique index on (task_id, assignee_id), *)
(* which the sync handler's upsert names as its conflict target, and a       *)
(* foreign key task_id -> tasks.id, which the embedded select of             *)
(* GET /api/tasks relies on.                                                 *)

MaxOps == 2                      \* requests in flight at once

Slots == 1..MaxOps

DbRow(n, t, u, st, ca, owner) ==
  [copy |-> n, task_id |-> t, assignee_id |-> u, status |-> st,
   completed_at |-> ca, completion_note |-> NULL, is_owner |-> owner]

RowKey(r) == <<r.task_id, r.assignee_id, r.copy>>

\* the characters of a string the requests carry, and the string of characters
Chars(text) ==
  CASE text = "" -> <<>>
    [] text = " " -> <<" ">>
    [] text = " a" -> <<" ", "a">>
    [] text = "b " -> <<"b", " ">>
    [] OTHER -> <<text>>

RECURSIVE Text(_)
Text(chars) == IF chars = <<>> THEN "" ELSE Head(chars) \o Text(Tail(chars))

\* String.prototype.trim
trimmed(text) == Text(trim(Chars(text)))

\* toISOFromDateInput of the date the edit form shows: its local noon
EditDue == Timestamp(TicksPerDay \div 2)

DbTaskFull(t, title, due, note) == [id |-> t, title |-> title, due_at |-> due, note |-> note]
DbTask(t, title) == DbTaskFull(t, title, EditDue, NULL)

TaskIds(tbl) == {r.id : r \in tbl}
RowsOf(rows, t) == {r \in rows : r.task_id = t}
RowsOfPair(rows, t, u) == {r \in rows : r.task_id = t /\ r.assignee_id = u}
AssigneesOf(rows, t) == {r.assignee_id : r \in RowsOf(rows, t)}

\* the fields of a request body other than ids and status
BodyFields == {"title", "due_at", "note"}
PartBody(given, title, due, note) ==
  [given |-> given, title |-> title, due_at |-> due, note |-> note]
Body(title, due, note) == PartBody(BodyFields, title, due, note)
NoBody == PartBody({}, "", NoDue, NULL)

NoOp ==
  [kind |-> "none", pc |-> "none", origin |-> "none", caller |-> NoSession,
   task |-> NULL, who |-> NULL, arg |-> {}, status |-> NULL, body |-> NoBody,
   existing |-> {}, rowids |-> {}, taskIds |-> {}, snap |-> <<>>,
   alone |-> TRUE, ok |-> FALSE, err |-> NULL, token |-> NULL]

FreeSlots == {i \in Slots : ops[i].kind = "none"}

\* the number a new row of (t, u) gets among the rows of that pair
FreshCopy(rows, t, u) ==
  LET used == {r.copy : r \in {x \in rows : x.task_id = t /\ x.assignee_id = u}}
  IN CHOOSE n \in 1..(Cardinality(used) + 1) : n \notin used /\ \A m \in 1..(n - 1) : m \in used

\* mutant: rows are added with no regard to the conflict target
UpsertOpen_blindInsert(rows, t, us) ==
  LET RECURSIVE Add(_, _)
      Add(acc, k) ==
        IF k > Len(UserOrder) THEN acc
        ELSE IF UserOrder[k] \in us
             THEN Add(acc \cup {DbRow(FreshCopy(acc, t, UserOrder[k]), t, UserOrder[k], "open", NULL, FALSE)}, k + 1)
             ELSE Add(acc, k + 1)
  IN Add(rows, 1)

\* .upsert(rows, { onConflict: "task_id,assignee_id" }) with
\* rows = {task_id, assignee_id, status: "open", completed_at: null}
UpsertOpen(rows, t, us) ==
  LET RECURSIVE Add(_, _)
      Add(acc, k) ==
        IF k > Len(UserOrder) THEN acc
        ELSE IF UserOrder[k] \in us
             THEN IF RowsOfPair(acc, t, UserOrder[k]) # {}
                  THEN Add({IF r \in RowsOfPair(acc, t, UserOrder[k])
                              THEN [r EXCEPT !.status = "open", !.completed_at = NULL]
                              ELSE r : r \in acc}, k + 1)
                  ELSE Add(acc \cup {DbRow(FreshCopy(acc, t, UserOrder[k]), t, UserOrder[k], "open", NULL, FALSE)}, k + 1)
             ELSE Add(acc, k + 1)
  IN Add(rows, 1)

\* .insert(rows) of POST /api/tasks: one open row per assignee, the owner flagged
InsertAssignments(rows, t, us, owner) ==
  LET RECURSIVE Add(_, _)
      Add(acc, k) ==
        IF k > Len(UserOrder) THEN acc
        ELSE IF UserOrder[k] \in us
             THEN Add(acc \cup {DbRow(FreshCopy(acc, t, UserOrder[k]), t, UserOrder[k], "open", NULL,
                                      UserOrder[k] = owner)}, k + 1)
             ELSE Add(acc, k + 1)
  IN Add(rows, 1)

\* the unique index refuses an insert that repeats a (task_id, assignee_id)
InsertConflicts(rows, t, us) == \E u \in us : RowsOfPair(rows, t, u) # {}

----------------------------------------------------------------------------
(* Route handlers.  A handler is a slot of ops; it moves at each database    *)
(* call, so concurrent handlers interleave between their calls.              *)

pageVars == <<session, tasks, assignmentDraft, savingAssignments, shownSaving,
              addLockRef, errorMsg>>

\* the response: the handler's locals are gone; a caller other than the page
\* keeps nothing of its request either
Respond(op, ok, err) ==
  IF op.origin = "api"
  THEN [NoOp EXCEPT !.kind = op.kind, !.origin = "api", !.pc = "resp", !.ok = ok, !.err = err]
  ELSE [op EXCEPT !.pc = "resp", !.ok = ok, !.err = err, !.arg = {}, !.body = NoBody,
                  !.existing = {}, !.rowids = {}, !.taskIds = {}, !.alone = TRUE]

\* handler i takes the step `rec`.  When it wrote rows of task `wrote`, every
\* other sync of that task that has computed its diff is marked as no longer
\* alone; the ids of the rows it deleted (`gone`) name nothing any more.
Step(i, rec, wrote, gone) ==
  ops' = [k \in Slots |->
            IF k = i THEN rec
            ELSE LET o == [ops[k] EXCEPT !.rowids = @ \ gone]
                 IN IF wrote # NULL /\ o.kind = "sync" /\ o.task = wrote
                       /\ o.pc \in {"sel", "del"}
                    THEN [o EXCEPT !.alone = FALSE]
                    ELSE o]

Keys(rows) == {RowKey(r) : r \in rows}

\* mutant: every row of the task is deleted before the desired set is written
SyncToRemove_all(existingIds, nextIds) == existingIds

SyncToRemove(existingIds, nextIds) == existingIds \ nextIds

\* mutant: every desired assignee is written, those already assigned too
SyncToAdd_all(existingIds, nextIds) == nextIds

SyncToAdd(existingIds, nextIds) == nextIds \ existingIds

\* PATCH action=sync: select existing, diff (route.ts 142-153)
SrvSyncSelect(i) ==
  /\ ops[i].kind = "sync" /\ ops[i].pc = "req"
  /\ LET existingIds == AssigneesOf(db_asg, ops[i].task)
         toRemove == SyncToRemove(existingIds, ops[i].arg)
         toAdd == SyncToAdd(existingIds, ops[i].arg)
         seen == [ops[i] EXCEPT !.existing = existingIds, !.alone = TRUE]
     IN Step(i, IF toRemove = {} /\ toAdd = {} THEN Respond(seen, TRUE, NULL)
                ELSE [seen EXCEPT !.pc = "sel"], NULL, {})
  /\ UNCHANGED <<db_tasks, db_asg, db_pool>>
  /\ UNCHANGED pageVars /\ UNCHANGED pureVars

\* PATCH action=sync: delete toRemove (route.ts 155-163)
SrvSyncDelete(i) ==
  /\ ops[i].kind = "sync" /\ ops[i].pc = "sel"
  /\ SyncToRemove(ops[i].existing, ops[i].arg) # {}
  /\ db_asg' = {r \in db_asg : ~(r.task_id = ops[i].task
                                  /\ r.assignee_id \in SyncToRemove(ops[i].existing, ops[i].arg))}
  /\ Step(i, IF SyncToAdd(ops[i].existing, ops[i].arg) = {}
             THEN Respond(ops[i], TRUE, NULL)
             ELSE [ops[i] EXCEPT !.pc = "del"], ops[i].task, Keys(db_asg \ db_asg'))
  /\ UNCHANGED <<db_tasks, db_pool>>
  /\ UNCHANGED pageVars /\ UNCHANGED pureVars

\* PATCH action=sync: upsert toAdd (route.ts 165-180)
SrvSyncUpsert(i) ==
  /\ ops[i].kind = "sync"
  /\ \/ ops[i].pc = "del"
     \/ ops[i].pc = "sel" /\ SyncToRemove(ops[i].existing, ops[i].arg) = {}
  /\ SyncToAdd(ops[i].existing, ops[i].arg) # {}
  /\ IF ops[i].task \in TaskIds(db_tasks)
     THEN /\ db_asg' = UpsertOpen(db_asg, ops[i].task, SyncToAdd(ops[i].existing, ops[i].arg))
          /\ Step(i, Respond(ops[i], TRUE, NULL), ops[i].task, {})
     ELSE /\ db_asg' = db_asg                      \* foreign key: no such task
          /\ Step(i, Respond(ops[i], FALSE, "500"), NULL, {})
  /\ UNCHANGED <<db_tasks, db_pool>>
  /\ UNCHANGED pageVars /\ UNCHANGED pureVars

\* mutant: with several rows the handler goes on and updates them
StatusRefusal_picks(n) == IF n = 0 THEN "400" ELSE NULL

\* mutant: a pair without a row is not refused
StatusRefusal_noneOk(n) == IF n > 1 THEN "409" ELSE NULL

\* the refusal of complete|reopen by the number of rows found (route.ts 58-80)
StatusRefusal(n) == IF n = 0 THEN "400" ELSE IF n > 1 THEN "409" ELSE NULL

\* PATCH action=complete|reopen: find the row (route.ts 47-82)
SrvStatusSelect(i) ==
  /\ ops[i].kind = "status" /\ ops[i].pc = "req"
  /\ LET rows == RowsOfPair(db_asg, ops[i].task, ops[i].who)
     IN Step(i, IF StatusRefusal(Cardinality(rows)) # NULL
                THEN Respond(ops[i], FALSE, StatusRefusal(Cardinality(rows)))
                ELSE [ops[i] EXCEPT !.pc = "sel", !.rowids = Keys(rows)], NULL, {})
  /\ UNCHANGED <<db_tasks, db_asg, db_pool>>
  /\ UNCHANGED pageVars /\ UNCHANGED pureVars

\* nextCompletedAt (route.ts 41): the server's clock, or null
\* mutant: a reopen leaves the completion time in place
NextCompletedAt_keeps(nextStatus) == "ts"

\* const nextCompletedAt = nextStatus === "complete" ? new Date().toISOString() : null
NextCompletedAt(nextStatus) == IF nextStatus = "complete" THEN "ts" ELSE NULL

\* PATCH action=complete|reopen: update by id, .single() (route.ts 86-101)
SrvStatusUpdate(i) ==
  /\ ops[i].kind = "status" /\ ops[i].pc = "sel"
  /\ LET hit == {r \in db_asg : RowKey(r) \in ops[i].rowids}
         done == [ops[i] EXCEPT !.rowids = {}]
     IN IF hit = {}
        THEN /\ db_asg' = db_asg
             /\ Step(i, Respond(done, FALSE, "500"), NULL, {})
        ELSE /\ db_asg' = {IF r \in hit
                             THEN [r EXCEPT !.status = ops[i].status,
                                            !.completed_at = NextCompletedAt(ops[i].status)]
                             ELSE r : r \in db_asg}
             /\ Step(i, Respond(done, TRUE, NULL), NULL, {})
  /\ UNCHANGED <<db_tasks, db_pool>>
  /\ UNCHANGED pageVars /\ UNCHANGED pureVars

\* PATCH action=set_owner: update the rows of the pair, .single() (route.ts
\* 108-132).  A singular answer asked of an update that returns no row or
\* several is an error, and the update is rolled back with it.
SrvSetOwner(i) ==
  /\ ops[i].kind = "owner" /\ ops[i].pc = "req"
  /\ LET hit == RowsOfPair(db_asg, ops[i].task, ops[i].who)
     IN IF Cardinality(hit) = 1
        THEN /\ db_asg' = {IF r \in hit THEN [r EXCEPT !.is_owner = (ops[i].status = "true")]
                             ELSE r : r \in db_asg}
             /\ Step(i, Respond(ops[i], TRUE, NULL), NULL, {})
        ELSE /\ db_asg' = db_asg
             /\ Step(i, Respond(ops[i], FALSE, "500"), NULL, {})
  /\ UNCHANGED <<db_tasks, db_pool>>
  /\ UNCHANGED pageVars /\ UNCHANGED pureVars

\* the id the tasks table gives a new row: never one it gave before
NewTaskId == CHOOSE t \in db_pool :
               \A k \in 1..Len(TaskOrder) :
                 TaskOrder[k] \in db_pool => \E m \in k..Len(TaskOrder) : TaskOrder[m] = t

\* mutant: only the title is validated
CreateRefusal_titleOnly(title, due) ==
  IF trimmed(title) = "" THEN "Title cannot be blank" ELSE NULL

\* POST /api/tasks: the validation of title and due_at (route.ts 289-341)
CreateRefusal(title, due) ==
  IF trimmed(title) = "" THEN "Title cannot be blank"
  ELSE IF due = NoDue THEN "Due date cannot be blank"
  ELSE NULL

\* POST /api/tasks: validate, then insert the task (route.ts 289-383)
SrvCreateTask(i) ==
  /\ ops[i].kind = "create" /\ ops[i].pc = "req"
  /\ db_pool # {}
  /\ LET refusal == CreateRefusal(ops[i].body.title, ops[i].body.due_at)
     IN IF refusal # NULL
        THEN /\ UNCHANGED <<db_tasks, db_pool>>
             /\ Step(i, Respond(ops[i], FALSE, refusal), NULL, {})
        ELSE /\ db_tasks' = db_tasks \cup {DbTaskFull(NewTaskId, trimmed(ops[i].body.title),
                                                         ops[i].body.due_at, ops[i].body.note)}
             /\ db_pool' = db_pool \ {NewTaskId}
             /\ Step(i, IF ops[i].arg = {}
                        THEN Respond([ops[i] EXCEPT !.task = NewTaskId], TRUE, NULL)
                        ELSE [ops[i] EXCEPT !.task = NewTaskId, !.pc = "ins"], NULL, {})
  /\ UNCHANGED db_asg
  /\ UNCHANGED pageVars /\ UNCHANGED pureVars

\* mutant: no foreign key: the task row goes and its assignment rows stay
TaskDeleteOutcomes_noKey(t) == { <<{r \in db_tasks : r.id # t}, db_asg>> }

\* .from("tasks").delete().eq("id", t): what the foreign key allows.  With no
\* rows naming t the task goes; with rows it either stays (restrict) or takes
\* them with it (cascade), whichever the table was created with.
TaskDeleteOutcomes(t) ==
  IF RowsOf(db_asg, t) = {}
  THEN { <<{r \in db_tasks : r.id # t}, db_asg>> }
  ELSE { <<db_tasks, db_asg>>,
         <<{r \in db_tasks : r.id # t}, db_asg \ RowsOf(db_asg, t)>> }

\* await supabaseAdmin.from("tasks").delete().eq("id", taskId): the tables
\* after the best-effort cleanup.  Its result is not read: when the delete
\* reports an error the tables stay as they are and the handler goes on.
CleanupOutcomes(t) == TaskDeleteOutcomes(t) \cup { <<db_tasks, db_asg>> }

\* POST /api/tasks: insert the assignment rows, clean up on error (route.ts 385-409)
SrvCreateAssignments(i) ==
  /\ ops[i].kind = "create" /\ ops[i].pc = "ins"
  /\ \/ /\ ~InsertConflicts(db_asg, ops[i].task, ops[i].arg)
        /\ ops[i].task \in TaskIds(db_tasks)
        /\ db_asg' = InsertAssignments(db_asg, ops[i].task, ops[i].arg, ops[i].who)
        /\ db_tasks' = db_tasks
        /\ Step(i, Respond(ops[i], TRUE, NULL), ops[i].task, {})
     \/ /\ \E out \in CleanupOutcomes(ops[i].task) :
             /\ db_tasks' = out[1]
             /\ db_asg' = out[2]
        /\ Step(i, Respond(ops[i], FALSE, "400"), ops[i].task, Keys(db_asg \ db_asg'))
  /\ UNCHANGED db_pool
  /\ UNCHANGED pageVars /\ UNCHANGED pureVars

\* a database call of a sync, status or set_owner handler returns an error: 500, nothing written
SrvDbError(i) ==
  /\ ops[i].kind \in {"sync", "status", "owner"} /\ ops[i].pc \in {"req", "sel", "del"}
  /\ Step(i, Respond([ops[i] EXCEPT !.rowids = {}], FALSE, "500"), NULL, {})
  /\ UNCHANGED <<db_tasks, db_asg, db_pool>>
  /\ UNCHANGED pageVars /\ UNCHANGED pureVars

\* PATCH /api/tasks: what the handler reads from the body (route.ts 526-529)
PatchTitle(b) == IF "title" \in b.given THEN trimmed(b.title) ELSE ""
PatchDue(b) == IF "due_at" \in b.given THEN b.due_at ELSE NoDue
PatchNote(b) == IF "note" \in b.given THEN b.note ELSE NULL

\* updatePayload = { title, note }, and due_at when one was sent (route.ts 541-544)
UpdatePayload(r, b) ==
  [r EXCEPT !.title = PatchTitle(b),
            !.note = PatchNote(b),
            !.due_at = IF PatchDue(b) # NoDue THEN PatchDue(b) ELSE @]

\* PATCH /api/tasks: a blank title is refused, else the rows with that id are
\* updated; an error of the update is answered with 400 (route.ts 526-556)
SrvPatchTask(i) ==
  /\ ops[i].kind = "edit" /\ ops[i].pc = "req"
  /\ \/ /\ PatchTitle(ops[i].body) # ""
        /\ db_tasks' = {IF r.id = ops[i].task THEN UpdatePayload(r, ops[i].body) ELSE r :
                          r \in db_tasks}
        /\ Step(i, Respond(ops[i], TRUE, NULL), NULL, {})
     \/ /\ PatchTitle(ops[i].body) # ""
        /\ db_tasks' = db_tasks
        /\ Step(i, Respond(ops[i], FALSE, "400"), NULL, {})
     \/ /\ PatchTitle(ops[i].body) = ""
        /\ db_tasks' = db_tasks
        /\ Step(i, Respond(ops[i], FALSE, "Title cannot be blank"), NULL, {})
  /\ UNCHANGED <<db_asg, db_pool>>
  /\ UNCHANGED pageVars /\ UNCHANGED pureVars

\* mutant: the task row goes first, its assignment rows after it
DeleteOrder_taskFirst == <<"tasks", "task_assignments">>

\* DELETE /api/tasks: the tables in the order the handler deletes from them
DeleteOrder == <<"task_assignments", "tasks">>

\* .from("task_assignments").delete().eq("task_id", t)
DeleteAssignmentsOf(t) == <<db_tasks, db_asg \ RowsOf(db_asg, t)>>

\* the outcomes of the delete on table `tbl`: the tables after it, and
\* whether it reported an error.  An error leaves the tables as they are.
DeleteOutcomes(tbl, t) ==
  IF tbl = "task_assignments"
  THEN { [after |-> DeleteAssignmentsOf(t), error |-> FALSE],
         [after |-> <<db_tasks, db_asg>>, error |-> TRUE] }
  ELSE { [after |-> out, error |-> t \in TaskIds(out[1])] : out \in TaskDeleteOutcomes(t) }
         \cup { [after |-> <<db_tasks, db_asg>>, error |-> TRUE] }

\* DELETE /api/tasks?id=t: one delete per step; an error is answered with
\* 400 and ends the handler (route.ts 485-503)
SrvDelete(i) ==
  /\ ops[i].kind = "delete" /\ ops[i].pc \in {"req", "del"}
  /\ LET tbl == DeleteOrder[IF ops[i].pc = "req" THEN 1 ELSE 2]
     IN \E out \in DeleteOutcomes(tbl, ops[i].task) :
          /\ db_tasks' = out.after[1]
          /\ db_asg' = out.after[2]
          /\ Step(i, IF out.error THEN Respond(ops[i], FALSE, "400")
                     ELSE IF ops[i].pc = "req" THEN [ops[i] EXCEPT !.pc = "del"]
                     ELSE Respond(ops[i], TRUE, NULL),
                  IF db_asg' # db_asg THEN ops[i].task ELSE NULL, Keys(db_asg \ db_asg'))
  /\ UNCHANGED db_pool
  /\ UNCHANGED pageVars /\ UNCHANGED pureVars

----------------------------------------------------------------------------
(* The routes under requests of any signed-in caller *)

Request(kind, caller, t, who, arg, status) ==
  [NoOp EXCEPT !.kind = kind, !.pc = "req", !.origin = "api", !.caller = caller,
               !.task = t, !.who = who, !.arg = arg, !.status = status]

AnyCaller == Session("u1", "user")

\* the task ids a caller can name: those of the table and of requests in flight
VisibleTasks == TaskIds(db_tasks) \cup ({ops[k].task : k \in Slots} \cap Tasks)

ApiSync(i) ==
  /\ ops[i].kind = "none" /\ \A k \in FreeSlots : i <= k
  /\ \E t \in VisibleTasks, nextIds \in SUBSET Users :
       Step(i, Request("sync", AnyCaller, t, NULL, nextIds, NULL), NULL, {})
  /\ UNCHANGED <<db_tasks, db_asg, db_pool>>
  /\ UNCHANGED pageVars /\ UNCHANGED pureVars

ApiStatus(i) ==
  /\ ops[i].kind = "none" /\ \A k \in FreeSlots : i <= k
  /\ \E c \in Sessions, t \in VisibleTasks, u \in Users, st \in {"complete", "open"} :
       Step(i, Request("status", c, t, u, {}, st), NULL, {})
  /\ UNCHANGED <<db_tasks, db_asg, db_pool>>
  /\ UNCHANGED pageVars /\ UNCHANGED pureVars

\* assignee_ids deduplicated; owner = the first of them (route.ts 296-325)
ApiCreate(i) ==
  /\ ops[i].kind = "none" /\ \A k \in FreeSlots : i <= k
  /\ Cardinality({k \in Slots : ops[k].kind = "create" /\ ops[k].pc = "req"}) < Cardinality(db_pool)
  /\ \E ids \in SUBSET Users :
       \E first \in (IF ids = {} THEN {NULL} ELSE ids) :
         Step(i, [Request("create", AnyCaller, NULL, first, ids, NULL)
                    EXCEPT !.body = Body("a", DateOnly(1), NULL)], NULL, {})
  /\ UNCHANGED <<db_tasks, db_asg, db_pool>>
  /\ UNCHANGED pageVars /\ UNCHANGED pureVars

\* the titles and due dates a caller can send
BodyTitles == {"a", "", " ", " a"}
BodyDues == {NoDue, DateOnly(1)}

\* a create request with any title, due date and assignee set
ApiCreateAny(i) ==
  /\ ops[i].kind = "none" /\ \A k \in FreeSlots : i <= k
  /\ Cardinality({k \in Slots : ops[k].kind = "create" /\ ops[k].pc = "req"}) < Cardinality(db_pool)
  /\ \E ids \in SUBSET Users, title \in BodyTitles, due \in BodyDues :
       \E first \in (IF ids = {} THEN {NULL} ELSE ids) :
         Step(i, [Request("create", AnyCaller, NULL, first, ids, NULL)
                    EXCEPT !.body = Body(title, due, NULL)], NULL, {})
  /\ UNCHANGED <<db_tasks, db_asg, db_pool>>
  /\ UNCHANGED pageVars /\ UNCHANGED pureVars

ApiSetOwner(i) ==
  /\ ops[i].kind = "none" /\ \A k \in FreeSlots : i <= k
  /\ \E c \in Sessions, t \in VisibleTasks, u \in Users, flag \in {"true", "false"} :
       Step(i, Request("owner", c, t, u, {}, flag), NULL, {})
  /\ UNCHANGED <<db_tasks, db_asg, db_pool>>
  /\ UNCHANGED pageVars /\ UNCHANGED pureVars

ApiResponse(i) ==
  /\ ops[i].pc = "resp" /\ ops[i].origin = "api"
  /\ Step(i, NoOp, NULL, {})
  /\ UNCHANGED <<db_tasks, db_asg, db_pool>>
  /\ UNCHANGED pageVars /\ UNCHANGED pureVars

PageIdle ==
  /\ session = NoSession
  /\ tasks = <<>>
  /\ assignmentDraft = <<>>
  /\ savingAssignments = {}
  /\ addLockRef = FALSE
  /\ shownSaving = {}
  /\ errorMsg = NULL

InitApi ==
  /\ PureIdle
  /\ PageIdle
  /\ db_tasks = {}
  /\ db_asg = {}
  /\ db_pool = {"t1"}
  /\ ops = [i \in 1..MaxOps |-> NoOp]

NextApi ==
  \E i \in Slots :
    \/ ApiSync(i)
    \/ ApiStatus(i)
    \/ ApiCreate(i)
    \/ ApiResponse(i)
    \/ SrvSyncSelect(i)
    \/ SrvSyncDelete(i)
    \/ SrvSyncUpsert(i)
    \/ SrvStatusSelect(i)
    \/ SrvStatusUpdate(i)
    \/ SrvCreateTask(i)
    \/ SrvCreateAssignments(i)
    \/ SrvDbError(i)

SpecApi == InitApi /\ [][NextApi]_vars

\* create, set_owner and sync requests against empty tables
NextOwner ==
  \E i \in Slots :
    \/ ApiCreate(i)
    \/ ApiSetOwner(i)
    \/ ApiSync(i)
    \/ ApiResponse(i)
    \/ SrvCreateTask(i)
    \/ SrvCreateAssignments(i)
    \/ SrvSetOwner(i)
    \/ SrvSyncSelect(i)
    \/ SrvSyncDelete(i)
    \/ SrvSyncUpsert(i)
    \/ SrvDbError(i)

SpecOwner == InitApi /\ [][NextOwner]_vars

\* a patch request that names any task and holds any of the three fields
PatchTitles == {"b", " "}
PatchNotes == {"m", NULL}

ApiPatch(i) ==
  /\ ops[i].kind = "none" /\ \A k \in FreeSlots : i <= k
  /\ \E t \in Tasks, given \in SUBSET BodyFields, title \in PatchTitles, note \in PatchNotes :
       Step(i, [Request("edit", AnyCaller, t, NULL, {}, NULL)
                  EXCEPT !.body = PartBody(given, title, DateOnly(2), note)], NULL, {})
  /\ UNCHANGED <<db_tasks, db_asg, db_pool>>
  /\ UNCHANGED pageVars /\ UNCHANGED pureVars

\* one task with a note, assigned to both users, one of them done
InitPatch ==
  /\ PureIdle
  /\ PageIdle
  /\ db_tasks = {DbTaskFull("t1", "a", DateOnly(1), "n")}
  /\ db_asg = {DbRow(1, "t1", "u1", "open", NULL, TRUE), DbRow(1, "t1", "u2", "complete", "ts", FALSE)}
  /\ db_pool = {}
  /\ ops = [i \in 1..MaxOps |-> NoOp]

NextPatch ==
  \E i \in Slots :
    \/ ApiPatch(i)
    \/ ApiResponse(i)
    \/ SrvPatchTask(i)

SpecPatch == InitPatch /\ [][NextPatch]_vars

\* create requests of any content against empty tables
InitCreate ==
  /\ PureIdle
  /\ PageIdle
  /\ db_tasks = {}
  /\ db_asg = {}
  /\ db_pool = Tasks
  /\ ops = [i \in 1..MaxOps |-> NoOp]

NextCreate ==
  \E i \in Slots :
    \/ ApiCreateAny(i)
    \/ ApiResponse(i)
    \/ SrvCreateTask(i)
    \/ SrvCreateAssignments(i)

SpecCreate == InitCreate /\ [][NextCreate]_vars

\* the routes over a table that holds several rows for a pair: it has no
\* unique index on (task_id, assignee_id), and the rows came from elsewhere
DupTables ==
  { {DbRow(1, "t1", "u1", st1, IF st1 = "complete" THEN "ts" ELSE NULL, own1),
     DbRow(2, "t1", "u1", st2, IF st2 = "complete" THEN "ts" ELSE NULL, FALSE)} \cup rest :
      st1 \in {"open", "complete"}, st2 \in {"open", "complete"}, own1 \in BOOLEAN,
      rest \in {{}, {DbRow(1, "t1", "u2", "open", NULL, FALSE)}} }

InitDup ==
  /\ PureIdle
  /\ PageIdle
  /\ db_tasks = {DbTask("t1", "a")}
  /\ db_asg \in DupTables
  /\ db_pool = {}
  /\ ops = [i \in 1..MaxOps |-> NoOp]

NextDup ==
  \E i \in Slots :
    \/ ApiStatus(i)
    \/ ApiSetOwner(i)
    \/ ApiResponse(i)
    \/ SrvStatusSelect(i)
    \/ SrvStatusUpdate(i)
    \/ SrvSetOwner(i)
    \/ SrvDbError(i)

SpecDup == InitDup /\ [][NextDup]_vars

----------------------------------------------------------------------------
(* GET /api/tasks *)

\* the embedded task_assignments of one task, as the page's AssignmentRow
RECURSIVE EmbeddedRows(_)
EmbeddedRows(rs) ==
  IF rs = {} THEN <<>>
  ELSE LET r == CHOOSE x \in rs :
                  \A y \in rs : \/ x.assignee_id = y.assignee_id /\ x.copy <= y.copy
                                \/ /\ x.assignee_id # y.assignee_id
                                   /\ \E k \in 1..Len(UserOrder) :
                                        /\ UserOrder[k] = x.assignee_id
                                        /\ \A m \in 1..k : UserOrder[m] # y.assignee_id
       IN <<AssignmentRow(r.assignee_id, r.status, r.completed_at, r.completion_note)>>
            \o EmbeddedRows(rs \ {r})

\* .from("tasks").select(... task_assignments(...)).order("created_at", desc),
\* restricted to the ids in `ids`
SelectTasks(ids) ==
  LET RECURSIVE Walk(_)
      Walk(k) ==
        IF k > Len(TaskOrder) THEN <<>>
        ELSE IF TaskOrder[k] \in ids /\ TaskOrder[k] \in TaskIds(db_tasks)
             THEN <<TaskRow(TaskOrder[k],
                            (CHOOSE r \in db_tasks : r.id = TaskOrder[k]).title,
                            EmbeddedRows(RowsOf(db_asg, TaskOrder[k])))>> \o Walk(k + 1)
             ELSE Walk(k + 1)
  IN Walk(1)

\* mutant: step 1 does not filter by the caller
AssignedTaskIds_all(uid) == {r.task_id : r \in db_asg}

\* step 1: .from("task_assignments").select("task_id").eq("assignee_id", uid)
AssignedTaskIds(uid) == {r.task_id : r \in {x \in db_asg : x.assignee_id = uid}}

\* admin: all tasks in one select; otherwise step 1, the caller's task ids
SrvGetTasks(i) ==
  /\ ops[i].kind = "get" /\ ops[i].pc = "req"
  /\ LET mine == AssignedTaskIds(ops[i].caller.uid)
     IN Step(i, IF ops[i].caller.role = "admin"
                THEN Respond([ops[i] EXCEPT !.snap = SelectTasks(Tasks)], TRUE, NULL)
                ELSE IF mine = {}
                     THEN Respond([ops[i] EXCEPT !.snap = <<>>], TRUE, NULL)
                     ELSE [ops[i] EXCEPT !.pc = "sel", !.taskIds = mine], NULL, {})
  /\ UNCHANGED <<db_tasks, db_asg, db_pool>>
  /\ UNCHANGED pageVars /\ UNCHANGED pureVars

\* step 2: those tasks with all their assignments
SrvGetTasksIn(i) ==
  /\ ops[i].kind = "get" /\ ops[i].pc = "sel"
  /\ Step(i, Respond([ops[i] EXCEPT !.snap = SelectTasks(ops[i].taskIds)], TRUE, NULL), NULL, {})
  /\ UNCHANGED <<db_tasks, db_asg, db_pool>>
  /\ UNCHANGED pageVars /\ UNCHANGED pureVars

\* a select of the handler returns an error: thrown, answered with 500
SrvGetError(i) ==
  /\ ops[i].kind = "get" /\ ops[i].pc \in {"req", "sel"}
  /\ Step(i, Respond(ops[i], FALSE, "500"), NULL, {})
  /\ UNCHANGED <<db_tasks, db_asg, db_pool>>
  /\ UNCHANGED pageVars /\ UNCHANGED pureVars

\* a caller other than the page asks for its tasks and keeps the answer
ApiGet(i) ==
  /\ ops[i].kind = "none" /\ \A k \in FreeSlots : i <= k
  /\ \E c \in Sessions :
       Step(i, [NoOp EXCEPT !.kind = "get", !.pc = "req", !.origin = "client", !.caller = c],
            NULL, {})
  /\ UNCHANGED <<db_tasks, db_asg, db_pool>>
  /\ UNCHANGED pageVars /\ UNCHANGED pureVars

ClientResponse(i) ==
  /\ ops[i].pc = "resp" /\ ops[i].origin = "client"
  /\ Step(i, NoOp, NULL, {})
  /\ UNCHANGED <<db_tasks, db_asg, db_pool>>
  /\ UNCHANGED pageVars /\ UNCHANGED pureVars

\* two tasks, each assigned to any set of users
GetTables ==
  { UpsertOpen(UpsertOpen({}, "t1", a1), "t2", a2) : a1 \in SUBSET Users, a2 \in SUBSET Users }

InitGet ==
  /\ PureIdle
  /\ PageIdle
  /\ db_tasks = {DbTask("t1", "a"), DbTask("t2", "b")}
  /\ db_asg \in GetTables
  /\ db_pool = {}
  /\ ops = [i \in 1..MaxOps |-> NoOp]

NextGet ==
  \E i \in Slots :
    \/ ApiGet(i)
    \/ ApiSync(i)
    \/ ApiResponse(i)
    \/ ClientResponse(i)
    \/ SrvGetTasks(i)
    \/ SrvGetTasksIn(i)
    \/ SrvGetError(i)
    \/ SrvSyncSelect(i)
    \/ SrvSyncDelete(i)
    \/ SrvSyncUpsert(i)

SpecGet == InitGet /\ [][NextGet]_vars

----------------------------------------------------------------------------
(* The session check of the routes (src/lib/server/getSession.ts).  Every    *)
(* handler begins with getSessionFromCookie and answers 401 when it is not   *)
(* ok.  The clock is `now`, in the ticks of the due dates.                    *)

MaxClock == 3
SessionExpiry == 1

\* expires_at of a session row: null, or an instant
NoExpiry == [has |-> FALSE, at |-> 0]
ExpiresAt(at) == [has |-> TRUE, at |-> at]

\* access_code_sessions joined with access_codes: the admin's session
\* expires, the user's has no expiry
access_code_sessions ==
  { [session_token |-> "sA", expires_at |-> ExpiresAt(SessionExpiry), role |-> "admin", user_id |-> "u2"],
    [session_token |-> "sU", expires_at |-> NoExpiry, role |-> "user", user_id |-> "u1"] }

\* the taskapp_session cookie of a request: none, a stored token, or a
\* token no row holds
Cookies == {NULL, "sA", "sU", "sX"}

\* mutant: expires_at is not looked at
getSessionFromCookie_noExpiry(token, clock) ==
  IF token = NULL THEN NoSession
  ELSE LET data == {r \in access_code_sessions : r.session_token = token}
       IN IF data = {} THEN NoSession
          ELSE LET d == CHOOSE r \in data : TRUE IN Session(d.user_id, d.role)

\* getSessionFromCookie when its select returns without error
getSessionFromCookie(token, clock) ==
  IF token = NULL THEN NoSession
  ELSE LET data == {r \in access_code_sessions : r.session_token = token}
       IN IF data = {} THEN NoSession
          ELSE LET d == CHOOSE r \in data : TRUE
               IN IF d.expires_at.has /\ d.expires_at.at < clock THEN NoSession
                  ELSE Session(d.user_id, d.role)

\* what getSessionFromCookie can return: the row's session, or { ok: false }
\* when both selects report an error
SessionOutcomes(token, clock) ==
  {getSessionFromCookie(token, clock)} \cup (IF token = NULL THEN {} ELSE {NoSession})

\* the requests a caller sends, one per handler and action
AuthRequests ==
  { Request("get", NoSession, NULL, NULL, {}, NULL),
    [Request("create", NoSession, NULL, "u1", {"u1"}, NULL) EXCEPT !.body = Body("a", DateOnly(1), NULL)],
    [Request("edit", NoSession, "t1", NULL, {}, NULL) EXCEPT !.body = Body("b", DateOnly(2), NULL)],
    Request("delete", NoSession, "t1", NULL, {}, NULL),
    Request("sync", NoSession, "t1", NULL, {"u2"}, NULL),
    Request("status", NoSession, "t1", "u1", {}, "complete") }

\* a request arrives with its cookie; the handler has not run yet
ApiWithCookie(i) ==
  /\ ops[i].kind = "none" /\ \A k \in FreeSlots : i <= k
  /\ \E token \in Cookies, req \in AuthRequests :
       /\ req.kind = "create" =>
            Cardinality({k \in Slots : ops[k].kind = "create" /\ ops[k].pc \in {"auth", "req"}})
              < Cardinality(db_pool)
       /\ Step(i, [req EXCEPT !.pc = "auth", !.origin = "client", !.token = token], NULL, {})
  /\ UNCHANGED <<db_tasks, db_asg, db_pool>>
  /\ UNCHANGED pageVars /\ UNCHANGED pureVars

\* const sess = await getSessionFromCookie(); if (!sess.ok) return 401
SrvSession(i) ==
  /\ ops[i].pc = "auth"
  /\ \E sess \in SessionOutcomes(ops[i].token, now) :
       Step(i, IF ~sess.ok THEN Respond(ops[i], FALSE, "401")
               ELSE [ops[i] EXCEPT !.pc = "req", !.caller = sess], NULL, {})
  /\ UNCHANGED <<db_tasks, db_asg, db_pool>>
  /\ UNCHANGED pageVars /\ UNCHANGED pureVars

\* time passes
Tick ==
  /\ now < MaxClock
  /\ now' = now + 1
  /\ UNCHANGED <<due_at, bucket, matches, d_pc, tz, dueFilter>>
  /\ UNCHANGED mergeVars /\ UNCHANGED viewVars /\ UNCHANGED sysVars

\* one task assigned to u1; the clock starts before the admin's session expires
InitAuth ==
  /\ PureIdle
  /\ PageIdle
  /\ db_tasks = {DbTask("t1", "a")}
  /\ db_asg = {DbRow(1, "t1", "u1", "open", NULL, TRUE)}
  /\ db_pool = {"t2"}
  /\ ops = [i \in 1..MaxOps |-> NoOp]

NextAuth ==
  \/ Tick
  \/ \E i \in Slots :
       \/ ApiWithCookie(i)
       \/ SrvSession(i)
       \/ ClientResponse(i)
       \/ SrvGetTasks(i)
       \/ SrvGetTasksIn(i)
       \/ SrvGetError(i)
       \/ SrvCreateTask(i)
       \/ SrvCreateAssignments(i)
       \/ SrvPatchTask(i)
       \/ SrvDelete(i)
       \/ SrvSyncSelect(i)
       \/ SrvSyncDelete(i)
       \/ SrvSyncUpsert(i)
       \/ SrvStatusSelect(i)
       \/ SrvStatusUpdate(i)
       \/ SrvDbError(i)

SpecAuth == InitAuth /\ [][NextAuth]_vars

----------------------------------------------------------------------------
(* The tasks page (src/app/tasks/page.tsx).  Its state is React state: a     *)
(* setter queues a value that the next render commits.  syncAssignees reads  *)
(* savingAssignments from the closure of the render that created it, so the  *)
(* flag it tests is the committed one (shownSaving), which trails the queued *)
(* one until Render.  Functional updaters (setTasks(prev => ...)) read the   *)
(* queued value.                                                             *)

PageRequest(kind, origin, t, who, arg, status) ==
  [NoOp EXCEPT !.kind = kind, !.pc = "req", !.origin = origin, !.caller = session,
               !.task = t, !.who = who, !.arg = arg, !.status = status]

IdsOf(list) == {list[k].id : k \in 1..Len(list)}

\* the draft loadSessionAndTasks derives from the merged list
DraftOf(list) ==
  [t \in IdsOf(list) |->
     LET row == list[CHOOSE k \in 1..Len(list) :
                       list[k].id = t /\ \A m \in (k + 1)..Len(list) : list[m].id # t]
     IN {a.assignee_id : a \in SeqToSet(row.task_assignments)}]

\* {...prev, [taskId]: next}
PutDraft(draft, t, next) ==
  [x \in DOMAIN draft \cup {t} |-> IF x = t THEN next ELSE draft[x]]

\* the optimistic patch of setAssignmentStatusForUser
PatchStatus(list, t, u, nextStatus) ==
  [k \in 1..Len(list) |->
     IF list[k].id # t THEN list[k]
     ELSE [list[k] EXCEPT !.task_assignments =
             [n \in 1..Len(@) |->
                IF @[n].assignee_id # u THEN @[n]
                ELSE [@[n] EXCEPT !.status = nextStatus,
                                  !.completed_at = IF nextStatus = "complete" THEN "ts" ELSE NULL]]]]

\* assignmentForAssignee: the first assignment of u in the task's list
FirstAssignment(list, t, u) ==
  LET row == list[CHOOSE k \in 1..Len(list) : list[k].id = t /\ \A m \in 1..(k - 1) : list[m].id # t]
      hits == {n \in 1..Len(row.task_assignments) : row.task_assignments[n].assignee_id = u}
  IN IF hits = {} THEN NULL
     ELSE row.task_assignments[CHOOSE n \in hits : \A m \in hits : n <= m]

\* the request of slot i is over: the slot is free, and the finally block of
\* syncAssignees clears the task's flag
\* mutant: the finally block leaves the flag as it is
FinallyFlags_keeps(flags, origin, t) == flags

\* finally { setSavingAssignments((prev) => ({ ...prev, [taskId]: false })) }
FinallyFlags(flags, origin, t) == IF origin = "sync" THEN flags \ {t} ELSE flags

\* finally { setAdding(false); addLockRef.current = false; }
FinallyLock(lock, origin) == IF origin = "add" THEN FALSE ELSE lock

Finish(i) ==
  /\ Step(i, NoOp, NULL, {})
  /\ savingAssignments' = FinallyFlags(savingAssignments, ops[i].origin, ops[i].task)
  /\ addLockRef' = FinallyLock(addLockRef, ops[i].origin)

\* React commits the queued state; the functions are created anew
Render ==
  /\ shownSaving # savingAssignments
  /\ shownSaving' = savingAssignments
  /\ UNCHANGED <<db_tasks, db_asg, db_pool, ops, session, tasks, assignmentDraft,
                 savingAssignments, addLockRef, errorMsg>>
  /\ UNCHANGED pureVars

\* if (savingAssignments[taskId]) return;
SyncGuard(t) == t \in shownSaving

\* toggleAssignee(taskId, assigneeId, checked), and the syncAssignees it calls
\* up to its fetch
toggleAssignee(i, t, u, checked) ==
  /\ t \in IdsOf(tasks)
  /\ LET current == IF t \in DOMAIN assignmentDraft THEN assignmentDraft[t] ELSE {}
         next == IF checked THEN current \cup {u} ELSE current \ {u}
     IN /\ assignmentDraft' = PutDraft(assignmentDraft, t, next)
        /\ errorMsg' = NULL
        /\ IF SyncGuard(t)
           THEN /\ i = 1
                /\ UNCHANGED <<ops, savingAssignments, addLockRef>>
           ELSE /\ ops[i].kind = "none" /\ \A k \in FreeSlots : i <= k
                /\ savingAssignments' = savingAssignments \cup {t}
                /\ UNCHANGED addLockRef
                /\ Step(i, PageRequest("sync", "sync", t, NULL, next, NULL), NULL, {})
  /\ UNCHANGED <<db_tasks, db_asg, db_pool, session, tasks, shownSaving>>
  /\ UNCHANGED pureVars

\* mutant: the store is reloaded whatever the answer to the sync
SyncReloads_always(ok) == TRUE

\* if (!res.ok || !j?.ok) throw ...; await loadSessionAndTasks()
SyncReloads(ok) == ok

\* mutant: the catch block empties the store, as that of loadSessionAndTasks does
syncCatch_clears(list) == <<>>

\* catch (e) { setErrorMsg(...) }: the store as the catch block leaves it
syncCatch(list) == list

\* syncAssignees after its fetch: reload on success, error on failure
SyncResponse(i) ==
  /\ ops[i].kind = "sync" /\ ops[i].pc = "resp" /\ ops[i].origin = "sync"
  /\ IF SyncReloads(ops[i].ok)
     THEN /\ errorMsg' = NULL
          /\ Step(i, [ops[i] EXCEPT !.kind = "session", !.pc = "req", !.ok = FALSE, !.err = NULL,
                                    !.arg = {}], NULL, {})
          /\ UNCHANGED <<tasks, savingAssignments, addLockRef>>
     ELSE /\ errorMsg' = "Failed updating assignments"
          /\ tasks' = syncCatch(tasks)
          /\ Finish(i)
  /\ UNCHANGED <<db_tasks, db_asg, db_pool, session, assignmentDraft, shownSaving>>
  /\ UNCHANGED pureVars

\* the answer to a fetch of the page is lost on the way: fetch throws, or
\* yields a body that is not the handler's
FetchFails(i) ==
  /\ ops[i].origin \in {"sync", "toggle", "edit", "mount", "delete", "add"}
  /\ ops[i].kind \in {"sync", "status", "edit", "get", "delete", "create"} /\ ops[i].pc = "resp" /\ ops[i].ok
  /\ Step(i, [ops[i] EXCEPT !.ok = FALSE, !.err = "500", !.snap = <<>>], NULL, {})
  /\ UNCHANGED <<db_tasks, db_asg, db_pool>>
  /\ UNCHANGED pageVars /\ UNCHANGED pureVars

\* loadSessionAndTasks at the answer to GET /api/auth/session: go on to
\* GET /api/tasks, or leave for /login, or (fetch throws) the catch block
LoadSession(i) ==
  /\ ops[i].kind = "session"
  /\ \/ /\ Step(i, [ops[i] EXCEPT !.kind = "get", !.pc = "req", !.caller = session], NULL, {})
        /\ UNCHANGED <<tasks, errorMsg, savingAssignments, addLockRef>>
     \/ /\ Finish(i)
        /\ UNCHANGED <<tasks, errorMsg>>
     \/ /\ Finish(i)
        /\ tasks' = <<>>
        /\ errorMsg' = "Failed loading tasks."
  /\ UNCHANGED <<db_tasks, db_asg, db_pool, session, assignmentDraft,
                 shownSaving>>
  /\ UNCHANGED pureVars

\* loadSessionAndTasks at the answer to GET /api/tasks: merge into the store
\* and derive the draft, or throw into the catch block
LoadTasks(i) ==
  /\ ops[i].kind = "get" /\ ops[i].pc = "resp" /\ ops[i].origin \in {"sync", "edit", "mount", "add"}
  /\ IF ops[i].ok
     THEN /\ tasks' = preserveDoneAssignments(tasks, ops[i].snap)
          /\ assignmentDraft' = DraftOf(tasks')
          /\ Step(i, [ops[i] EXCEPT !.kind = "users", !.pc = "req", !.snap = <<>>,
                                    !.ok = FALSE, !.err = NULL], NULL, {})
          /\ UNCHANGED <<errorMsg, savingAssignments, addLockRef>>
     ELSE /\ tasks' = <<>>
          /\ errorMsg' = "Failed loading tasks."
          /\ Finish(i)
          /\ UNCHANGED assignmentDraft
  /\ UNCHANGED <<db_tasks, db_asg, db_pool, session, shownSaving>>
  /\ UNCHANGED pureVars

\* loadSessionAndTasks at the answer to GET /api/users: done, or (fetch
\* throws) the catch block
LoadUsers(i) ==
  /\ ops[i].kind = "users"
  /\ \/ /\ Finish(i)
        /\ UNCHANGED <<tasks, errorMsg>>
     \/ /\ Finish(i)
        /\ tasks' = <<>>
        /\ errorMsg' = "Failed loading tasks."
  /\ UNCHANGED <<db_tasks, db_asg, db_pool, session, assignmentDraft,
                 shownSaving>>
  /\ UNCHANGED pureVars

EditTitles == {"a", ""}

\* saveEdit up to its fetch: a blank title is refused on the page
saveEdit(i, t, title) ==
  /\ t \in IdsOf(tasks)
  /\ IF title = ""
     THEN /\ i = 1
          /\ errorMsg' = "Title cannot be blank."
          /\ UNCHANGED ops
     ELSE /\ ops[i].kind = "none" /\ \A k \in FreeSlots : i <= k
          /\ errorMsg' = NULL
          /\ Step(i, [PageRequest("edit", "edit", t, NULL, {}, NULL)
                        EXCEPT !.body = Body(title, EditDue, NULL)], NULL, {})
  /\ UNCHANGED <<db_tasks, db_asg, db_pool, session, tasks, assignmentDraft, savingAssignments, addLockRef,
                 shownSaving>>
  /\ UNCHANGED pureVars

\* saveEdit after its fetch: reload on success, error on failure
SaveEditResponse(i) ==
  /\ ops[i].kind = "edit" /\ ops[i].pc = "resp" /\ ops[i].origin = "edit"
  /\ IF ops[i].ok
     THEN /\ errorMsg' = NULL
          /\ Step(i, [ops[i] EXCEPT !.kind = "session", !.pc = "req", !.ok = FALSE, !.err = NULL,
                                    !.status = NULL], NULL, {})
     ELSE /\ errorMsg' = "Failed saving edit."
          /\ Step(i, NoOp, NULL, {})
  /\ UNCHANGED <<db_tasks, db_asg, db_pool, session, tasks, assignmentDraft, savingAssignments, addLockRef,
                 shownSaving>>
  /\ UNCHANGED pureVars

HasAssignment(list, t, u) ==
  \E k \in 1..Len(list) : list[k].id = t
       /\ \E a \in SeqToSet(list[k].task_assignments) : a.assignee_id = u

\* setAssignmentStatusForUser up to its fetch
setAssignmentStatusForUser(i, t, u, nextStatus) ==
  /\ ops[i].kind = "none" /\ \A k \in FreeSlots : i <= k
  /\ errorMsg' = NULL
  /\ Step(i, PageRequest("status", "toggle", t, u, {}, nextStatus), NULL, {})
  /\ UNCHANGED <<db_tasks, db_asg, db_pool, session, tasks, assignmentDraft, savingAssignments, addLockRef,
                 shownSaving>>
  /\ UNCHANGED pureVars

\* the Complete / Reopen button of a card: enabled when the target has an
\* assignment; the target is the signed-in user, or the admin's open bucket
CompleteButton(i) ==
  \E t \in IdsOf(tasks) :
    \E u \in (IF session.role = "admin" THEN Users ELSE {session.uid}) :
      /\ HasAssignment(tasks, t, u)
      /\ setAssignmentStatusForUser(i, t, u,
           IF FirstAssignment(tasks, t, u).status = "complete" THEN "open" ELSE "complete")

\* mutant: the patch is applied whatever the answer
StatusPatches_always(ok) == TRUE

\* if (!res.ok || !j?.ok) throw ...; setTasks(prev => prev.map(...))
StatusPatches(ok) == ok

\* setAssignmentStatusForUser after its fetch
StatusResponse(i) ==
  /\ ops[i].kind = "status" /\ ops[i].pc = "resp" /\ ops[i].origin = "toggle"
  /\ IF StatusPatches(ops[i].ok)
     THEN /\ tasks' = PatchStatus(tasks, ops[i].task, ops[i].who, ops[i].status)
          /\ UNCHANGED errorMsg
     ELSE /\ errorMsg' = "Failed to update assignment."
          /\ UNCHANGED tasks
  /\ Step(i, NoOp, NULL, {})
  /\ UNCHANGED <<db_tasks, db_asg, db_pool, session, assignmentDraft, savingAssignments, addLockRef,
                 shownSaving>>
  /\ UNCHANGED pureVars

\* deleteTask once Yes is pressed in the confirm dialog, up to its fetch
deleteTask(i, t) ==
  /\ t \in IdsOf(tasks)
  /\ ops[i].kind = "none" /\ \A k \in FreeSlots : i <= k
  /\ errorMsg' = NULL
  /\ Step(i, PageRequest("delete", "delete", t, NULL, {}, NULL), NULL, {})
  /\ UNCHANGED <<db_tasks, db_asg, db_pool, session, tasks, assignmentDraft, savingAssignments, addLockRef,
                 shownSaving>>
  /\ UNCHANGED pureVars

\* prev.filter((t) => t.id !== taskId)
WithoutTask(list, t) == SelectSeq(list, LAMBDA row : row.id # t)

\* delete copy[taskId]
WithoutDraft(draft, t) == [x \in DOMAIN draft \ {t} |-> draft[x]]

\* mutant: the store is left to the next reload
deleteTaskDone_keeps(list, t) == list

\* the store after a delete that succeeded
deleteTaskDone(list, t) == WithoutTask(list, t)

\* deleteTask after its fetch
DeleteResponse(i) ==
  /\ ops[i].kind = "delete" /\ ops[i].pc = "resp" /\ ops[i].origin = "delete"
  /\ IF ops[i].ok
     THEN /\ tasks' = deleteTaskDone(tasks, ops[i].task)
          /\ assignmentDraft' = WithoutDraft(assignmentDraft, ops[i].task)
          /\ UNCHANGED errorMsg
     ELSE /\ errorMsg' = "Failed deleting task."
          /\ UNCHANGED <<tasks, assignmentDraft>>
  /\ Step(i, NoOp, NULL, {})
  /\ UNCHANGED <<db_tasks, db_asg, db_pool, session, savingAssignments, addLockRef, shownSaving>>
  /\ UNCHANGED pureVars

\* the page after construction: nothing loaded, the mount effect's
\* loadSessionAndTasks waiting for its first answer; the tables hold one
\* task, created with no assignee and assigned to u1 by a sync since
Init ==
  /\ PureIdle
  /\ db_tasks = {DbTask("t1", "a")}
  /\ db_pool = {}
  /\ db_asg = UpsertOpen({}, "t1", {"u1"})
  /\ session \in Sessions
  /\ ops = [i \in 1..MaxOps |->
              IF i = 1 THEN [NoOp EXCEPT !.kind = "session", !.pc = "req", !.origin = "mount"]
              ELSE NoOp]
  /\ tasks = <<>>
  /\ assignmentDraft = <<>>
  /\ savingAssignments = {}
  /\ addLockRef = FALSE
  /\ shownSaving = {}
  /\ errorMsg = NULL

Next ==
  \/ Render
  \/ \E i \in Slots :
       \/ \E t \in Tasks, u \in Users, checked \in BOOLEAN : toggleAssignee(i, t, u, checked)
       \/ CompleteButton(i)
       \/ SyncResponse(i)
       \/ StatusResponse(i)
       \/ LoadSession(i)
       \/ LoadTasks(i)
       \/ LoadUsers(i)
       \/ FetchFails(i)
       \/ SrvSyncSelect(i)
       \/ SrvSyncDelete(i)
       \/ SrvSyncUpsert(i)
       \/ SrvStatusSelect(i)
       \/ SrvStatusUpdate(i)
       \/ SrvDbError(i)
       \/ SrvGetTasks(i)
       \/ SrvGetTasksIn(i)
       \/ SrvGetError(i)

Spec == Init /\ [][Next]_vars

\* the steps of the page under edits: saveEdit is the second caller of
\* loadSessionAndTasks, and nothing keeps two of its reloads apart
EditStep(i) ==
  \/ \E t \in Tasks, title \in EditTitles : saveEdit(i, t, title)
  \/ SaveEditResponse(i)
  \/ StatusResponse(i)
  \/ LoadSession(i)
  \/ LoadTasks(i)
  \/ LoadUsers(i)
  \/ SrvPatchTask(i)
  \/ SrvStatusSelect(i)
  \/ SrvStatusUpdate(i)
  \/ SrvDbError(i)
  \/ SrvGetTasks(i)
  \/ SrvGetTasksIn(i)
  \/ SrvGetError(i)

\* the page under edits and completions; answers may be lost
NextEdit ==
  \E i \in Slots :
    \/ EditStep(i)
    \/ CompleteButton(i)
    \/ FetchFails(i)

SpecEdit == Init /\ [][NextEdit]_vars

\* the button pressed only where it says Complete
CompleteOnly(i) == CompleteButton(i) /\ ops'[i].status = "complete"

\* the page under edits and completions where no reopen is asked for and
\* every answer reaches the page
NextComplete ==
  \E i \in Slots :
    \/ EditStep(i)
    \/ CompleteOnly(i)

SpecComplete == Init /\ [][NextComplete]_vars

\* saveEdit pressed while the page waits for no answer
QuietSaveEdit(i) ==
  /\ \A k \in Slots : ops[k].kind = "none"
  /\ \E t \in Tasks, title \in EditTitles : saveEdit(i, t, title)

\* the button pressed while no complete or reopen request is in flight
LoneCompleteButton(i) ==
  /\ \A k \in Slots : ops[k].kind # "status"
  /\ CompleteButton(i)

\* the page under completions and reopens, one at a time, where every answer
\* reaches the page and an edit (with its reload) starts only while nothing
\* is in flight
NextReopen ==
  \E i \in Slots :
    \/ QuietSaveEdit(i)
    \/ LoneCompleteButton(i)
    \/ SaveEditResponse(i)
    \/ StatusResponse(i)
    \/ LoadSession(i)
    \/ LoadTasks(i)
    \/ LoadUsers(i)
    \/ SrvPatchTask(i)
    \/ SrvStatusSelect(i)
    \/ SrvStatusUpdate(i)
    \/ SrvDbError(i)
    \/ SrvGetTasks(i)
    \/ SrvGetTasksIn(i)
    \/ SrvGetError(i)

SpecReopen == Init /\ [][NextReopen]_vars

\* a checkbox of the assignment editor changed while the page waits for no answer
QuietToggleAssignee(i) ==
  /\ \A k \in Slots : ops[k].kind = "none"
  /\ \E t \in Tasks, u \in Users, checked \in BOOLEAN : toggleAssignee(i, t, u, checked)

\* the page under assignment changes made one at a time: no request of the
\* page is in flight when the next one starts; answers may be lost
NextSync ==
  \/ Render
  \/ \E i \in Slots :
       \/ QuietToggleAssignee(i)
       \/ SyncResponse(i)
       \/ LoadSession(i)
       \/ LoadTasks(i)
       \/ LoadUsers(i)
       \/ FetchFails(i)
       \/ SrvSyncSelect(i)
       \/ SrvSyncDelete(i)
       \/ SrvSyncUpsert(i)
       \/ SrvDbError(i)
       \/ SrvGetTasks(i)
       \/ SrvGetTasksIn(i)
       \/ SrvGetError(i)

SpecSync == Init /\ [][NextSync]_vars

\* the steps that are not the user's: the handlers answer, the answers reach
\* the page and its awaits go on
SyncProgress ==
  \E i \in Slots :
    \/ SyncResponse(i)
    \/ LoadSession(i)
    \/ LoadTasks(i)
    \/ LoadUsers(i)
    \/ FetchFails(i)
    \/ SrvSyncSelect(i)
    \/ SrvSyncDelete(i)
    \/ SrvSyncUpsert(i)
    \/ SrvDbError(i)
    \/ SrvGetTasks(i)
    \/ SrvGetTasksIn(i)
    \/ SrvGetError(i)

\* SpecSync where every remote call returns and React commits queued state
SpecSyncFair == SpecSync /\ WF_vars(SyncProgress) /\ WF_vars(Render)

\* the page under assignment changes and deletions, with the handlers its
\* requests run
NextDelete ==
  \/ Render
  \/ \E i \in Slots :
       \/ \E t \in Tasks, u \in Users, checked \in BOOLEAN : toggleAssignee(i, t, u, checked)
       \/ \E t \in Tasks : deleteTask(i, t)
       \/ SyncResponse(i)
       \/ DeleteResponse(i)
       \/ LoadSession(i)
       \/ LoadTasks(i)
       \/ LoadUsers(i)
       \/ FetchFails(i)
       \/ SrvSyncSelect(i)
       \/ SrvSyncDelete(i)
       \/ SrvSyncUpsert(i)
       \/ SrvDelete(i)
       \/ SrvDbError(i)
       \/ SrvGetTasks(i)
       \/ SrvGetTasksIn(i)
       \/ SrvGetError(i)

SpecDelete == Init /\ [][NextDelete]_vars

\* a DELETE /api/tasks?id=t request of any signed-in caller
ApiDelete(i) ==
  /\ ops[i].kind = "none" /\ \A k \in FreeSlots : i <= k
  /\ \E t \in VisibleTasks :
       Step(i, Request("delete", AnyCaller, t, NULL, {}, NULL), NULL, {})
  /\ UNCHANGED <<db_tasks, db_asg, db_pool>>
  /\ UNCHANGED pageVars /\ UNCHANGED pureVars

\* the routes under create, sync and delete requests, interleaved at every
\* database call
NextOrphan ==
  \E i \in Slots :
    \/ ApiCreate(i)
    \/ ApiSync(i)
    \/ ApiDelete(i)
    \/ ApiResponse(i)
    \/ SrvCreateTask(i)
    \/ SrvCreateAssignments(i)
    \/ SrvSyncSelect(i)
    \/ SrvSyncDelete(i)
    \/ SrvSyncUpsert(i)
    \/ SrvDelete(i)
    \/ SrvDbError(i)

SpecOrphan == InitApi /\ [][NextOrphan]_vars

\* what is typed into the new-task box
NewTitles == {"c", " "}

\* mutant: addTask does not look at the lock
AddSends_noLock(title, ids, lock) == trimmed(title) # "" /\ ids # {}

\* addTask goes on to its fetch: the title is not blank, an assignee is
\* chosen, and if (addLockRef.current) return
AddSends(title, ids, lock) == trimmed(title) # "" /\ ids # {} /\ ~lock

\* addTask up to its fetch; the owner is the first assignee chosen
addTask(i) ==
  /\ ops[i].kind = "none" /\ \A k \in FreeSlots : i <= k
  /\ Cardinality({k \in Slots : ops[k].kind = "create" /\ ops[k].pc = "req"}) < Cardinality(db_pool)
  /\ \E title \in NewTitles, ids \in SUBSET Users :
       /\ errorMsg' = IF trimmed(title) # "" /\ ids = {}
                      THEN "Please assign this task to at least one person."
                      ELSE NULL
       /\ IF AddSends(title, ids, addLockRef)
          THEN /\ addLockRef' = TRUE
               /\ \E first \in ids :
                    Step(i, [PageRequest("create", "add", NULL, first, ids, NULL)
                               EXCEPT !.body = Body(trimmed(title), EditDue, NULL)], NULL, {})
          ELSE UNCHANGED <<ops, addLockRef>>
  /\ UNCHANGED <<db_tasks, db_asg, db_pool, session, tasks, assignmentDraft, savingAssignments,
                 shownSaving>>
  /\ UNCHANGED pureVars

\* addTask after its fetch: reload on success, error on failure
AddResponse(i) ==
  /\ ops[i].kind = "create" /\ ops[i].pc = "resp" /\ ops[i].origin = "add"
  /\ IF ops[i].ok
     THEN /\ Step(i, [ops[i] EXCEPT !.kind = "session", !.pc = "req", !.ok = FALSE, !.err = NULL,
                                    !.who = NULL], NULL, {})
          /\ UNCHANGED <<errorMsg, savingAssignments, addLockRef>>
     ELSE /\ errorMsg' = "Failed to add task."
          /\ Finish(i)
  /\ UNCHANGED <<db_tasks, db_asg, db_pool, session, tasks, assignmentDraft, shownSaving>>
  /\ UNCHANGED pureVars

\* the page after construction, over empty tables
InitAdd ==
  /\ PureIdle
  /\ db_tasks = {}
  /\ db_pool = Tasks
  /\ db_asg = {}
  /\ session \in Sessions
  /\ ops = [i \in 1..MaxOps |->
              IF i = 1 THEN [NoOp EXCEPT !.kind = "session", !.pc = "req", !.origin = "mount"]
              ELSE NoOp]
  /\ tasks = <<>>
  /\ assignmentDraft = <<>>
  /\ savingAssignments = {}
  /\ addLockRef = FALSE
  /\ shownSaving = {}
  /\ errorMsg = NULL

\* the page under addTask, with the handlers its requests run; answers may
\* be lost
NextAdd ==
  \E i \in Slots :
    \/ addTask(i)
    \/ AddResponse(i)
    \/ LoadSession(i)
    \/ LoadTasks(i)
    \/ LoadUsers(i)
    \/ FetchFails(i)
    \/ SrvCreateTask(i)
    \/ SrvCreateAssignments(i)
    \/ SrvGetTasks(i)
    \/ SrvGetTasksIn(i)
    \/ SrvGetError(i)

SpecAdd == InitAdd /\ [][NextAdd]_vars

----------------------------------------------------------------------------
(* Lookups used by the properties *)

TaskIn(list, tid) == {i \in 1..Len(list) : list[i].id = tid}
AssignmentsOf(list, tid, uid) ==
  UNION { {a \in SeqToSet(list[i].task_assignments) : a.assignee_id = uid} :
          i \in TaskIn(list, tid) }

\* (tid, uid) is complete in prev and open in next
Downgrade(prev, next, tid, uid) ==
  /\ \E pa \in AssignmentsOf(prev, tid, uid) : pa.status = "complete"
  /\ \E a \in AssignmentsOf(next, tid, uid) : a.status = "open"

\* C1: whenever prev holds (task, assignee) as complete and next holds it as
\* open, the merged list holds that assignment, and holds it as complete.
C1_MergeKeepsComplete ==
  m_pc = "done" =>
    \A tid \in Tasks, uid \in Users :
      Downgrade(m_prev, m_next, tid, uid) =>
        /\ AssignmentsOf(m_out, tid, uid) # {}
        /\ \A a \in AssignmentsOf(m_out, tid, uid) : a.status = "complete"

C1_Witness ==
  /\ m_pc = "done"
  /\ \E tid \in Tasks, uid \in Users : Downgrade(m_prev, m_next, tid, uid)

----------------------------------------------------------------------------
(* Claims about the routes (SpecApi) *)

NonAdminOnOther(op) ==
  /\ op.kind = "status"
  /\ op.caller.role # "admin"
  /\ op.who # op.caller.uid

\* C9: a complete/reopen request of a non-admin caller that names another
\* identity's assignment is answered with a refusal and writes no row.
C9_NonAdminOtherRefused ==
  [][\A i \in Slots :
       (NonAdminOnOther(ops[i]) /\ ops[i].pc \in {"req", "sel"} /\ ops'[i].pc = "resp")
         => (~ops'[i].ok /\ db_asg' = db_asg)]_vars

\* C10: at most one task_assignments row per (task_id, assignee_id).
C10_OneRowPerPair ==
  \A t \in Tasks, u \in Users : Cardinality(RowsOfPair(db_asg, t, u)) <= 1

\* two syncs of one task have both computed a diff that adds u, and one of
\* them has already written u's row
C10_Witness ==
  \E i \in Slots, j \in Slots, u \in Users :
    /\ i # j
    /\ ops[i].kind = "sync" /\ ops[i].pc \in {"sel", "del"}
    /\ u \in SyncToAdd(ops[i].existing, ops[i].arg)
    /\ ops[j].kind = "sync" /\ ops[j].pc = "resp" /\ ops[j].ok
    /\ RowsOfPair(db_asg, ops[i].task, u) # {}
    /\ ~ops[i].alone

----------------------------------------------------------------------------
(* Claims about the sync handler (SpecApi) *)

SyncMoves(i) ==
  /\ ops[i].kind = "sync" /\ ops[i].pc \in {"req", "sel", "del"}
  /\ ops'[i].pc # ops[i].pc

\* C4: when a sync of task T with desired set D runs with no other writer of
\* T's rows since its diff was computed, the rows it deletes are those of
\* current \ D, the rows it inserts are open rows of D \ current, and when it
\* answers ok the assignee set of T is D.
C4_SyncAppliesDiff ==
  [][\A i \in Slots :
       (SyncMoves(i) /\ (ops[i].pc = "req" \/ ops[i].alone)) =>
         LET t == ops[i].task
             D == ops[i].arg
             current == IF ops[i].pc = "req" THEN AssigneesOf(db_asg, t) ELSE ops[i].existing
         IN /\ \A r \in db_asg \ db_asg' : r.task_id = t /\ r.assignee_id \in current \ D
            /\ \A r \in db_asg' \ db_asg :
                 r.task_id = t /\ r.assignee_id \in D \ current /\ r.status = "open"
            /\ (ops'[i].pc = "resp" /\ ops'[i].ok) => AssigneesOf(db_asg', t) = D]_vars

\* a sync that had to remove and to add has removed, alone, and is about to add
C4_Witness ==
  \E i \in Slots :
    /\ ops[i].kind = "sync" /\ ops[i].pc = "del" /\ ops[i].alone
    /\ SyncToRemove(ops[i].existing, ops[i].arg) # {}
    /\ SyncToAdd(ops[i].existing, ops[i].arg) # {}
    /\ AssigneesOf(db_asg, ops[i].task) = ops[i].existing \cap ops[i].arg

----------------------------------------------------------------------------
(* Claims about the page (Spec, SpecEdit) *)

ShowsOpen(t, u) == \E a \in AssignmentsOf(tasks, t, u) : a.status = "open"

StatusInFlight(t, u) ==
  \E i \in Slots : ops[i].kind = "status" /\ ops[i].task = t /\ ops[i].who = u

\* C2: once a complete toggle of (T, A) has succeeded and been patched into
\* the store, the store does not show (T, A) as open, whatever reloads ran,
\* run or failed.  Where no reopen is asked for, every answer reaches the page
\* and assignees do not change (SpecComplete), the toggle has succeeded and
\* been patched exactly when the row is complete and no toggle is under way.
C2_CompleteNeverShownOpen ==
  \A t \in Tasks, u \in Users :
    ((\E r \in RowsOfPair(db_asg, t, u) : r.status = "complete") /\ ~StatusInFlight(t, u))
      => ~ShowsOpen(t, u)

SyncUnresolved(t) == \E i \in Slots : ops[i].origin = "sync" /\ ops[i].task = t

\* C3: a call of syncAssignees for a task while an earlier one for that task
\* has not resolved issues no request.
C3_SecondSyncIssuesNothing ==
  [][\A t \in Tasks :
       SyncUnresolved(t) =>
         ~\E j \in Slots : /\ ops[j].kind = "none"
                           /\ ops'[j].kind = "sync" /\ ops'[j].task = t]_vars

\* C5: a sync whose desired set is the set the table holds writes nothing: its
\* select is its last step, and no row is inserted, deleted or updated.
C5_SecondSyncWritesNothing ==
  [][\A i \in Slots :
       (ops[i].kind = "sync" /\ ops[i].pc = "req" /\ ops'[i].pc # "req"
          /\ AssigneesOf(db_asg, ops[i].task) = ops[i].arg)
         => (ops'[i].pc = "resp" /\ db_asg' = db_asg)]_vars

\* the second syncAssignees(T, D): the first and its reload are over, the
\* store and the table hold D, and the request with D is on its way
C5_Witness ==
  \E i \in Slots :
    /\ ops[i].kind = "sync" /\ ops[i].pc = "req" /\ ops[i].origin = "sync"
    /\ \A j \in Slots \ {i} : ops[j].kind = "none"
    /\ ops[i].arg = Users
    /\ AssigneesOf(db_asg, ops[i].task) = ops[i].arg
    /\ \A u \in ops[i].arg : AssignmentsOf(tasks, ops[i].task, u) # {}

\* C6: the reload of syncAssignees starts in the step that receives the ok
\* answer to the write, and in no other; a failed write ends the call.
C6_ReloadAfterWrite ==
  [][\A i \in Slots :
       (ops[i].origin = "sync" /\ ops[i].kind = "sync" /\ ops'[i].kind # "sync")
         => /\ ops[i].pc = "resp"
            /\ ops[i].ok => (ops'[i].kind = "session" /\ ops'[i].origin = "sync")
            /\ ~ops[i].ok => ops'[i].kind = "none"]_vars

\* the reload of a sync has fetched the tasks; the written rows are in the table
C6_Witness ==
  \E i \in Slots :
    /\ ops[i].origin = "sync" /\ ops[i].kind = "get" /\ ops[i].pc = "resp" /\ ops[i].ok
    /\ Len(ops[i].snap) > 0

SyncAttemptStep(i) ==
  \/ ops[i].kind = "none" /\ ops'[i].kind = "sync" /\ ops'[i].origin = "sync"
  \/ ops[i].kind = "sync" /\ ops[i].origin = "sync" /\ ops'[i].kind = "sync" /\ ops'[i].pc # ops[i].pc
  \/ ops[i].kind = "sync" /\ ops[i].origin = "sync" /\ ops[i].pc = "resp" /\ ~ops[i].ok
       /\ ops'[i] # ops[i]

\* C7: no step of a sync attempt that fails changes the store's task list:
\* not the call, not the request, not the handling of the failure, which
\* ends the attempt and shows an error.
C7_FailedSyncKeepsStore ==
  [][\A i \in Slots :
       SyncAttemptStep(i) =>
         /\ tasks' = tasks
         /\ (ops[i].pc = "resp" /\ ~ops[i].ok) => (ops'[i].kind = "none" /\ errorMsg' # NULL)]_vars

\* a sync has failed after the store was loaded: the error is shown, the
\* store still holds the task
C7_Witness ==
  /\ errorMsg = "Failed updating assignments"
  /\ tasks # <<>>
  /\ \A i \in Slots : ops[i].kind = "none"

\* C8: the step that handles a failed complete/reopen request leaves the
\* store as it was and shows an error.
C8_FailedToggleKeepsStore ==
  [][\A i \in Slots :
       (ops[i].kind = "status" /\ ops[i].origin = "toggle" /\ ops[i].pc = "resp" /\ ~ops[i].ok
          /\ ops'[i] # ops[i])
         => (tasks' = tasks /\ errorMsg' # NULL /\ ops'[i].kind = "none")]_vars

\* a complete request has failed: the error is shown and the store shows the
\* assignment open, as before
C8_Witness ==
  /\ errorMsg = "Failed to update assignment."
  /\ \A i \in Slots : ops[i].kind = "none"
  /\ \E t \in Tasks, u \in Users : ShowsOpen(t, u)

\* C13: the merged list has the tasks of next in next's order, each with
\* next's fields and next's assignees in next's order; an assignment that is
\* not a complete-to-open downgrade against prev is next's row unchanged.
C13_MergeFrame ==
  m_pc = "done" =>
    /\ Len(m_out) = Len(m_next)
    /\ \A i \in 1..Len(m_next) :
         LET t == m_next[i]
             o == m_out[i]
         IN /\ [o EXCEPT !.task_assignments = t.task_assignments] = t
            /\ Len(o.task_assignments) = Len(t.task_assignments)
            /\ \A j \in 1..Len(t.task_assignments) :
                 LET a == t.task_assignments[j]
                     b == o.task_assignments[j]
                 IN /\ b.assignee_id = a.assignee_id
                    /\ ~Downgrade(m_prev, m_next, t.id, a.assignee_id) => b = a

\* a merge of a task both lists hold under different titles, in which one
\* assignee is downgraded, and the other is complete in both lists with
\* different timestamps
C13_Witness ==
  /\ m_pc = "done"
  /\ \E tid \in Tasks :
       /\ TaskIn(m_prev, tid) # {} /\ TaskIn(m_next, tid) # {}
       /\ \E i \in TaskIn(m_prev, tid), k \in TaskIn(m_next, tid) : m_prev[i].title # m_next[k].title
       /\ \E u \in Users, v \in Users :
            /\ Downgrade(m_prev, m_next, tid, u)
            /\ ~Downgrade(m_prev, m_next, tid, v)
            /\ \E pa \in AssignmentsOf(m_prev, tid, v), a \in AssignmentsOf(m_next, tid, v) :
                 pa.status = "complete" /\ a.status = "complete" /\ pa # a
  /\ \E tid \in Tasks : TaskIn(m_prev, tid) = {} /\ TaskIn(m_next, tid) # {}

----------------------------------------------------------------------------
(* Claims about duplicate rows (SpecDup) *)

Duplicated(t, u) == Cardinality(RowsOfPair(db_asg, t, u)) > 1

\* C11: a complete, reopen or set_owner request for a pair that has several
\* rows is answered with an error, and no step of its handler changes a row.
C11_DuplicatesRefused ==
  [][\A i \in Slots :
       (ops[i].kind \in {"status", "owner"} /\ ops[i].pc \in {"req", "sel"}
          /\ Duplicated(ops[i].task, ops[i].who) /\ ops'[i] # ops[i])
         => (db_asg' = db_asg /\ ops'[i].pc = "resp" /\ ~ops'[i].ok)]_vars

\* both kinds of request have been refused while the pair had two rows
C11_Witness ==
  \E i \in Slots, j \in Slots :
    /\ ops[i].kind = "status" /\ ops[i].pc = "resp" /\ ops[i].err = "409"
    /\ ops[j].kind = "owner" /\ ops[j].pc = "resp" /\ ops[j].err = "500"
    /\ Duplicated("t1", "u1")

----------------------------------------------------------------------------
(* Claims about a missing row (Spec) *)

NoRow(t, u) == RowsOfPair(db_asg, t, u) = {}

\* C12: a complete or reopen request for a pair that has no row is answered
\* with an error and no step of its handler changes the table; when the page
\* receives that answer it leaves the store as it was.
C12_MissingRowRefused ==
  [][\A i \in Slots :
       (ops[i].kind = "status" /\ ops'[i] # ops[i])
         => /\ (ops[i].pc \in {"req", "sel"} /\ NoRow(ops[i].task, ops[i].who))
               => (db_asg' = db_asg /\ ops'[i].pc = "resp" /\ ~ops'[i].ok)
            /\ (ops[i].pc = "resp" /\ ops[i].err = "400")
               => (db_asg' = db_asg /\ tasks' = tasks)]_vars

\* the page asked to complete an assignment its store still shows, the
\* table had no such row, and the refusal is on its way back
C12_Witness ==
  \E i \in Slots :
    /\ ops[i].kind = "status" /\ ops[i].origin = "toggle"
    /\ ops[i].pc = "resp" /\ ops[i].err = "400"
    /\ HasAssignment(tasks, ops[i].task, ops[i].who)
    /\ NoRow(ops[i].task, ops[i].who)

----------------------------------------------------------------------------
(* Claims about due dates (SpecDue) *)

\* the calendar day an instant falls on in the viewer's timezone
LocalDay(at, zone) == (at + zone) \div TicksPerDay

\* the calendar day a due date names: a date names itself, a timestamp the
\* local day it falls on
DueDay(due, zone) == IF due.kind = "date" THEN due.v ELSE LocalDay(due.v, zone)

\* C14: dueBucket answers one of no_due, today, late, future: no_due exactly
\* for a null due_at, otherwise future, today or late as the due date's local
\* day is after, equal to or before the clock's; applied again to the same
\* inputs it answers the same.
C14_BucketByLocalDay ==
  [][d_pc' = "bucket" =>
       /\ bucket' \in {"no_due", "today", "late", "future"}
       /\ (bucket' = "no_due") <=> (due_at' = NoDue)
       /\ due_at' # NoDue =>
            /\ (bucket' = "future") <=> (DueDay(due_at', tz') > LocalDay(now', tz'))
            /\ (bucket' = "today") <=> (DueDay(due_at', tz') = LocalDay(now', tz'))
            /\ (bucket' = "late") <=> (DueDay(due_at', tz') < LocalDay(now', tz'))
       /\ d_pc = "bucket" => bucket' = bucket]_vars

\* a timestamp whose UTC day is not its local day has been classified by
\* its local day
C14_Witness ==
  /\ d_pc = "bucket" /\ due_at.kind = "timestamp"
  /\ LocalDay(due_at.v, tz) # LocalDay(due_at.v, 0)
  /\ LocalDay(due_at.v, tz) = LocalDay(now, tz)
  /\ LocalDay(now, 0) # LocalDay(now, tz)
  /\ due_at.v < now
  /\ bucket = "today"

\* C15: a date-only due_at naming day D is today while the clock is on local
\* day D, late on every later local day and future on every earlier one, in
\* every timezone and at every time of day.
C15_DateOnlyIsLocalDay ==
  (d_pc = "bucket" /\ due_at.kind = "date") =>
    LET nowDay == LocalDay(now, tz)
    IN /\ nowDay = due_at.v => bucket = "today"
       /\ nowDay > due_at.v => bucket = "late"
       /\ nowDay < due_at.v => bucket = "future"

\* half past midnight of the day after the due day, west of Greenwich: late
C15_Witness ==
  /\ d_pc = "bucket" /\ due_at = DateOnly(1) /\ tz < 0
  /\ now + tz = 2 * TicksPerDay + 1
  /\ bucket = "late"

\* C16: matchesDueFilter is true for __all__; for not_due_yet exactly when
\* the bucket is future; for late_today exactly when it is today or late;
\* for today, late and no_due exactly when the bucket is the filter.
C16_FilterByBucket ==
  d_pc = "matches" =>
    LET b == dueBucket(due_at, now, tz)
    IN /\ dueFilter = "__all__" => matches
       /\ dueFilter = "not_due_yet" => (matches <=> b = "future")
       /\ dueFilter = "late_today" => (matches <=> b \in {"today", "late"})
       /\ dueFilter \in {"today", "late", "no_due"} => (matches <=> b = dueFilter)

\* late_today has matched a due date of an earlier day
C16_Witness ==
  /\ d_pc = "matches" /\ dueFilter = "late_today" /\ matches
  /\ dueBucket(due_at, now, tz) = "late"

----------------------------------------------------------------------------
(* Claims about the views (SpecView) *)

IdsIn(list) == {list[i].id : i \in 1..Len(list)}
Occurrences(list, id) == Cardinality({i \in 1..Len(list) : list[i].id = id})
StoreTasks == {tasks[i] : i \in 1..Len(tasks)}

\* the task's due day is after the clock's local day
FutureDated(t) == t.due_at # NoDue /\ DueDay(t.due_at, tz) > LocalDay(now, tz)

\* the category and search filters let the task through
PassesCategoryAndSearch(t) ==
  /\ (categoryFilter = "__all__" \/ t.category_id = categoryFilter)
  /\ matchesSearch(t, searchText)

\* the status of the viewer's assignment on the task, "none" without one
ViewerStatus(t) ==
  LET mine == {a \in SeqToSet(t.task_assignments) : a.assignee_id = session.uid}
  IN IF mine = {} THEN "none" ELSE (CHOOSE a \in mine : TRUE).status

HasRow(t, u) == \E a \in SeqToSet(t.task_assignments) : a.assignee_id = u

\* no card is expanded, or this task's is
NotCollapsed(t) == expandedTaskId = NULL \/ expandedTaskId = t.id

\* C17: under the due filters __all__ and not_due_yet a task whose due day is
\* in the future is in every list it would otherwise be in (Open, Closed,
\* Unassigned, each assignee's bucket); under every other due filter it is
\* in none of them.
C17_FutureHiddenOnlyByFilter ==
  v_pc = "done" =>
    \A t \in StoreTasks :
      FutureDated(t) =>
        IF dueFilter \in {"__all__", "not_due_yet"}
        THEN PassesCategoryAndSearch(t) =>
               /\ (ViewerStatus(t) = "open" /\ NotCollapsed(t)) => t.id \in IdsIn(v_open)
               /\ ViewerStatus(t) = "complete" => t.id \in IdsIn(v_closed)
               /\ Len(t.task_assignments) = 0 => t.id \in IdsIn(v_unassigned)
               /\ \A u \in Users : HasRow(t, u) => t.id \in IdsIn(v_byAssignee[u])
        ELSE /\ t.id \notin IdsIn(v_open) \cup IdsIn(v_closed) \cup IdsIn(v_unassigned)
             /\ \A u \in Users : t.id \notin IdsIn(v_byAssignee[u])

\* the task passes the due, category and search filters
PassesFilters(t) ==
  matchesDueFilter(t.due_at, dueFilter, now, tz) /\ PassesCategoryAndSearch(t)

\* C18: in the self view Open and Closed share no task, a task without an
\* assignment of the viewer is in neither, and a task that passes the due,
\* category and search filters is in Open exactly when the viewer's
\* assignment is not complete and in Closed exactly when it is complete
\* (Open: while no other card is expanded).
C18_SelfViewPartition ==
  v_pc = "done" =>
    /\ IdsIn(v_open) \cap IdsIn(v_closed) = {}
    /\ \A t \in StoreTasks :
         /\ ViewerStatus(t) = "none" => t.id \notin IdsIn(v_open) \cup IdsIn(v_closed)
         /\ PassesFilters(t) =>
              /\ NotCollapsed(t) => (t.id \in IdsIn(v_open) <=> ViewerStatus(t) = "open")
              /\ t.id \in IdsIn(v_closed) <=> ViewerStatus(t) = "complete"

\* C19: in the admin view a task that passes the filters is in Unassigned
\* exactly when it has no assignment, and in a profile's bucket exactly when
\* that profile has an assignment on it, once.
C19_AdminBuckets ==
  v_pc = "done" =>
    \A t \in StoreTasks :
      PassesFilters(t) =>
        /\ t.id \in IdsIn(v_unassigned) <=> Len(t.task_assignments) = 0
        /\ Occurrences(v_unassigned, t.id) <= 1
        /\ \A u \in Users :
             Occurrences(v_byAssignee[u], t.id) = (IF HasRow(t, u) THEN 1 ELSE 0)

\* a task of two assignees, shown under the filter today, stands in both
\* buckets, beside an unassigned task in Unassigned
C19_Witness ==
  /\ v_pc = "done" /\ dueFilter = "today" /\ session.role = "admin"
  /\ \E t \in StoreTasks :
       /\ \A u \in Users : HasRow(t, u) /\ Occurrences(v_byAssignee[u], t.id) = 1
       /\ t.id \notin IdsIn(v_unassigned)
  /\ v_unassigned # <<>>

\* C20: in every profile's bucket Open plus Done is the number of tasks of
\* the bucket, and Done is the number of them whose assignment for that
\* profile is complete, whatever the other assignees' rows say.
C20_BucketCounts ==
  v_pc = "done" =>
    \A u \in Users :
      /\ v_openCount[u] + v_doneCount[u] = Len(v_byAssignee[u])
      /\ v_doneCount[u] =
           Cardinality({i \in 1..Len(v_byAssignee[u]) :
                          \E a \in SeqToSet(v_byAssignee[u][i].task_assignments) :
                             a.assignee_id = u /\ a.status = "complete"})

\* a bucket of two tasks, one done and one open, the open one completed by
\* the other assignee
C20_Witness ==
  /\ v_pc = "done"
  /\ \E u \in Users, w \in Users :
       /\ u # w
       /\ Len(v_byAssignee[u]) = 2 /\ v_openCount[u] = 1 /\ v_doneCount[u] = 1
       /\ \E i \in 1..2 :
            LET t == v_byAssignee[u][i]
            IN /\ \E a \in SeqToSet(t.task_assignments) : a.assignee_id = u /\ a.status = "open"
               /\ \E a \in SeqToSet(t.task_assignments) : a.assignee_id = w /\ a.status = "complete"

----------------------------------------------------------------------------
(* Claims about deleting a task (SpecDelete) *)

\* C21: a task row leaves the table only in the last step of a delete
\* handler that has deleted the task's assignment rows before, and no row of
\* the task is left then; a handler whose first delete fails deletes no task;
\* when the page takes the answer of a delete that succeeded, its store holds
\* neither the task nor a draft nor an assignment of it.
C21_DeleteAssignmentsFirst ==
  [][/\ \A t \in TaskIds(db_tasks) \ TaskIds(db_tasks') :
          /\ RowsOf(db_asg', t) = {}
          /\ \E i \in Slots : /\ ops[i].kind = "delete" /\ ops[i].task = t
                               /\ ops[i].pc = "del" /\ ops'[i].pc = "resp" /\ ops'[i].ok
     /\ \A i \in Slots :
          /\ (ops[i].kind = "delete" /\ ops[i].pc = "req" /\ ops'[i].pc = "resp")
               => (~ops'[i].ok /\ db_tasks' = db_tasks /\ db_asg' = db_asg)
          /\ (ops[i].kind = "delete" /\ ops[i].pc = "resp" /\ ops[i].ok /\ ops'[i].kind = "none")
               => /\ ops[i].task \notin IdsOf(tasks')
                  /\ ops[i].task \notin DOMAIN assignmentDraft'
                  /\ \A u \in Users : AssignmentsOf(tasks', ops[i].task, u) = {}]_vars

\* the handler has deleted the rows and the task the store still shows, and
\* its answer is on the way to the page
C21_Witness ==
  \E i \in Slots :
    /\ ops[i].kind = "delete" /\ ops[i].origin = "delete" /\ ops[i].pc = "resp" /\ ops[i].ok
    /\ ops[i].task \notin TaskIds(db_tasks)
    /\ RowsOf(db_asg, ops[i].task) = {}
    /\ HasAssignment(tasks, ops[i].task, "u1")

----------------------------------------------------------------------------
(* Claims about reading the tasks (SpecGet) *)

\* the tasks on which the user has an assignment row
TasksOfUser(uid) == {t \in TaskIds(db_tasks) : \E r \in db_asg : r.task_id = t /\ r.assignee_id = uid}

\* the task of the answer carries every assignment row the table holds for it
AllEmbedded(row) ==
  /\ {row.task_assignments[k].assignee_id : k \in 1..Len(row.task_assignments)} = AssigneesOf(db_asg, row.id)
  /\ Len(row.task_assignments) = Cardinality(RowsOf(db_asg, row.id))

\* C22: an admin's answer holds every task of the table; the answer to any
\* other caller holds the tasks the caller has an assignment on, as found when
\* the handler asked for them, and no other; with the caller's assignments as
\* they were then, these are exactly the tasks the caller is assigned to now;
\* every task of an answer carries all of its assignments.
C22_OnlyAssignedTasks ==
  [][\A i \in Slots :
       /\ (ops[i].kind = "get" /\ ops[i].pc = "req" /\ ops'[i].pc = "sel") =>
            /\ ops[i].caller.role # "admin"
            /\ ops'[i].taskIds = TasksOfUser(ops[i].caller.uid)
       /\ (ops[i].kind = "get" /\ ops[i].pc \in {"req", "sel"} /\ ops'[i].pc = "resp" /\ ops'[i].ok) =>
         LET uid == ops[i].caller.uid
             found == IF ops[i].pc = "req" THEN TasksOfUser(uid) ELSE ops[i].taskIds
         IN /\ IdsOf(ops'[i].snap) =
                  IF ops[i].caller.role = "admin" THEN TaskIds(db_tasks) ELSE found
            /\ (ops[i].caller.role # "admin" /\ found = TasksOfUser(uid))
                 => \A t \in Tasks : t \in IdsOf(ops'[i].snap) <=> uid \in AssigneesOf(db_asg, t)
            /\ \A k \in 1..Len(ops'[i].snap) : AllEmbedded(ops'[i].snap[k])
            /\ Len(ops'[i].snap) = Cardinality(IdsOf(ops'[i].snap))]_vars

\* a caller who is no admin holds an answer with one task, with the
\* assignments of both users, while the table holds a task of the other user
C22_Witness ==
  \E i \in Slots :
    /\ ops[i].kind = "get" /\ ops[i].origin = "client" /\ ops[i].pc = "resp" /\ ops[i].ok
    /\ ops[i].caller.role # "admin"
    /\ IdsOf(ops[i].snap) = {"t1"}
    /\ Len(ops[i].snap[1].task_assignments) = 2
    /\ AssigneesOf(db_asg, "t2") = Users \ {ops[i].caller.uid}

----------------------------------------------------------------------------
(* Claims about creating a task (SpecCreate) *)

\* C23: a create request with an empty assignee set is answered with an
\* error and leaves both tables as they were.
C23_NoAssigneesRefused ==
  [][\A i \in Slots :
       (ops[i].kind = "create" /\ ops[i].pc = "req" /\ ops[i].arg = {} /\ ops'[i].pc # "req") =>
         /\ ops'[i].pc = "resp" /\ ~ops'[i].ok
         /\ db_tasks' = db_tasks /\ db_asg' = db_asg]_vars

\* the title of the request as the handler reads it is empty
BlankTitle(title) == \A k \in 1..Len(Chars(title)) : Chars(title)[k] = " "

\* C24: a create request whose title is empty or only blanks, or that has no
\* due date, is answered with a validation error, ends there, and leaves both
\* tables as they were.
C24_BlankTitleOrNoDueRefused ==
  [][\A i \in Slots :
       (/\ ops[i].kind = "create" /\ ops[i].pc = "req" /\ ops'[i].pc # "req"
        /\ (BlankTitle(ops[i].body.title) \/ ops[i].body.due_at = NoDue)) =>
         /\ ops'[i].pc = "resp" /\ ~ops'[i].ok
         /\ ops'[i].err \in {"Title cannot be blank", "Due date cannot be blank"}
         /\ db_tasks' = db_tasks /\ db_asg' = db_asg /\ db_pool' = db_pool]_vars

\* a request without a due date was refused while nothing had been created
C24_Witness ==
  \E i \in Slots :
    /\ ops[i].kind = "create" /\ ops[i].pc = "resp" /\ ~ops[i].ok
    /\ ops[i].err = "Due date cannot be blank"
    /\ db_tasks = {} /\ db_asg = {} /\ db_pool = Tasks

----------------------------------------------------------------------------
(* Claims about the assignment rows under every operation *)

\* completed_at is set exactly when the status is complete
TimedIffComplete(a) == (a.completed_at # NULL) <=> (a.status = "complete")

\* C25: in every state every assignment row of the table, and every
\* assignment of every task of the store, has completed_at set if and only
\* if its status is complete.
C25_CompletedAtIffComplete ==
  /\ \A r \in db_asg : TimedIffComplete(r)
  /\ \A k \in 1..Len(tasks) :
       \A n \in 1..Len(tasks[k].task_assignments) : TimedIffComplete(tasks[k].task_assignments[n])

\* the table holds a row that was completed and reopened, next to a complete
\* one, and the store shows a completed assignment
C25_Witness ==
  /\ \E r \in db_asg : r.status = "complete" /\ r.completed_at = "ts"
  /\ \E r \in db_asg : r.status = "open" /\ r.completed_at = NULL
  /\ \E k \in 1..Len(tasks) :
       \E n \in 1..Len(tasks[k].task_assignments) :
         /\ tasks[k].task_assignments[n].status = "complete"
         /\ tasks[k].task_assignments[n].completed_at = "ts"

\* the rows of the task that carry the owner flag
OwnersOf(t) == {r \in RowsOf(db_asg, t) : r.is_owner}

\* C26: in every state of the tables every task has at most one assignment
\* row with is_owner = true.
C26_AtMostOneOwner == \A t \in Tasks : Cardinality(OwnersOf(t)) <= 1

\* C27: the status of an assignment row that exists before and after a step
\* changes only in the update step of a complete or reopen request for the
\* row's own (task, assignee) pair, and that step changes no other row; no
\* step of a sync or create request changes the status of such a row.
C27_StatusOnlyByToggle ==
  [][\A r \in db_asg :
       \A q \in db_asg' :
         (RowKey(q) = RowKey(r) /\ q.status # r.status) =>
           \E i \in Slots :
             /\ ops[i].kind = "status" /\ ops[i].pc = "sel" /\ ops'[i].pc = "resp"
             /\ ops[i].task = r.task_id /\ ops[i].who = r.assignee_id
             /\ q.status = ops[i].status
             /\ q.completed_at = NextCompletedAt(ops[i].status)
             /\ db_asg' \ {q} = db_asg \ {r}]_vars

----------------------------------------------------------------------------
(* Claims about patching a task (SpecPatch) *)

\* C28: a step of a patch request leaves every assignment row and every
\* other task as it was, and leaves the title, the due date and the note of
\* its task as they were unless the request holds that field.
C28_PatchOnlyGivenFields ==
  [][\A i \in Slots :
       (ops[i].kind = "edit" /\ ops[i].pc = "req" /\ ops'[i].pc = "resp") =>
         /\ db_asg' = db_asg
         /\ TaskIds(db_tasks') = TaskIds(db_tasks)
         /\ \A r \in db_tasks : \A q \in db_tasks' :
              q.id = r.id =>
                /\ (r.id # ops[i].task => q = r)
                /\ ("title" \notin ops[i].body.given => q.title = r.title)
                /\ ("due_at" \notin ops[i].body.given => q.due_at = r.due_at)
                /\ ("note" \notin ops[i].body.given => q.note = r.note)]_vars

----------------------------------------------------------------------------
(* Claims about the store's task list *)

\* C29: a step changes the store's task list only as a reload that merges a
\* fetched snapshot into it, or as the patch that follows the ok answer of a
\* complete or reopen request; every other step leaves the list as it was.
C29_StoreChangedOnlyByMergeOrPatch ==
  [][tasks' # tasks =>
       \E i \in Slots :
         /\ ops[i].pc = "resp" /\ ops[i].ok
         /\ \/ /\ ops[i].kind = "get"
               /\ tasks' = preserveDoneAssignments(tasks, ops[i].snap)
            \/ /\ ops[i].kind = "status"
               /\ tasks' = PatchStatus(tasks, ops[i].task, ops[i].who, ops[i].status)]_vars

\* the one row of the pair in the table is open
RemoteOpen(t, u) == \E r \in RowsOfPair(db_asg, t, u) : r.status = "open"

\* C30: when a reload that began while the page waited for nothing else
\* merges a snapshot that shows the table as it is, with nothing else in
\* flight, the store shows open afterwards for every pair the table holds as
\* open: whatever the store showed before (a reopen patched in, a read that
\* was under way then merged over it), this reload makes it equal to the table.
C30_ReloadCorrectsReopen ==
  [][\A i \in Slots :
       (/\ ops[i].kind = "get" /\ ops[i].pc = "resp" /\ ops[i].ok /\ ops'[i].kind = "users"
        /\ \A k \in Slots \ {i} : ops[k].kind = "none") =>
         \A t \in Tasks, u \in Users :
           (/\ RemoteOpen(t, u)
            /\ HasAssignment(ops[i].snap, t, u)
            /\ FirstAssignment(ops[i].snap, t, u).status = "open") =>
             /\ HasAssignment(tasks', t, u)
             /\ FirstAssignment(tasks', t, u).status = "open"]_vars

----------------------------------------------------------------------------
(* Claims about the assignment editor (SpecSync, Spec) *)

\* the assignees the store shows for the task
StoreAssignees(list, t) ==
  UNION { {a.assignee_id : a \in SeqToSet(list[k].task_assignments)} :
          k \in {n \in 1..Len(list) : list[n].id = t} }

\* the signed-in user is given the task by GET /api/tasks
Fetches(t) == session.role = "admin" \/ session.uid \in AssigneesOf(db_asg, t)

C32_FlagCleared ==
  /\ [][/\ \A i \in Slots :
            (ops[i].origin = "sync" /\ ops'[i].kind = "none") =>
              ops[i].task \notin savingAssignments'
        /\ \A t \in Tasks :
            (assignmentDraft' # assignmentDraft /\ tasks' = tasks /\ t \in DOMAIN assignmentDraft'
             /\ (t \notin DOMAIN assignmentDraft \/ assignmentDraft'[t] # assignmentDraft[t])
             /\ t \notin shownSaving) =>
              \E i \in Slots : ops[i].kind = "none" /\ ops'[i].kind = "sync" /\ ops'[i].task = t]_vars
  /\ \A t \in Tasks : (t \in savingAssignments) ~> (t \notin savingAssignments)
  /\ \A t \in Tasks : (t \in shownSaving) ~> (t \notin shownSaving)

\* a sync has failed and is over: its flag is cleared, and rendered so
C32_Witness ==
  /\ errorMsg = "Failed updating assignments"
  /\ savingAssignments = {}
  /\ shownSaving = {}
  /\ \A k \in Slots : ops[k].kind = "none"

-----------------------------------------------------------------------------
(* Claims about the Complete / Reopen button (SpecEdit) *)

\* the complete and reopen requests of the page that have not resolved
TogglesInFlight == {i \in Slots : ops[i].kind = "status" /\ ops[i].origin = "toggle"}

\* C33: at most one complete or reopen request of the page is unresolved at
\* any time, and a press of the button while one is unresolved starts none.
C33_OneToggleInFlight ==
  /\ [](Cardinality(TogglesInFlight) <= 1)
  /\ [][TogglesInFlight # {} => TogglesInFlight' \subseteq TogglesInFlight]_vars

-----------------------------------------------------------------------------
(* Claims about the due date's visibility (SpecDue) *)

\* C34: for every due_at, clock reading and timezone, once dueBucket has been
\* applied, isDueVisible of the same inputs is true exactly when the bucket
\* is not future.
C34_VisibleIffNotFuture ==
  d_pc = "bucket" => (isDueVisible(due_at, now, tz) <=> bucket # "future")

-----------------------------------------------------------------------------
(* Claims about the tables under deletions (SpecOrphan) *)

-----------------------------------------------------------------------------
(* Claims about a failed create (SpecCreate) *)

\* C36: the step in which a create request's insert of the assignment rows
\* fails answers with an error and leaves no row of the request's task in
\* the tasks table.
C36_FailedCreateLeavesNoTask ==
  [][\A i \in Slots :
       (ops[i].kind = "create" /\ ops[i].pc = "ins" /\ ops'[i].pc = "resp" /\ ~ops'[i].ok) =>
         ops[i].task \notin TaskIds(db_tasks')]_vars

-----------------------------------------------------------------------------
(* Claims about the session check (SpecAuth) *)

\* the cookie names no session: it is missing, no row holds it, or the row's
\* expires_at is past
NoValidSession(token, clock) ==
  \/ token = NULL
  \/ \A r \in access_code_sessions : r.session_token # token
  \/ \E r \in access_code_sessions :
       r.session_token = token /\ r.expires_at.has /\ r.expires_at.at < clock

\* C37: the first step of a handler (GET, POST, PATCH, DELETE of tasks, PATCH
\* of task-assignments) whose request carries no valid session answers 401
\* and ends the handler, with the tables as they were; and a handler is past
\* that step only with a session that was ok.
C37_NoSessionNoAccess ==
  /\ [][\A i \in Slots :
          (ops[i].pc = "auth" /\ ops'[i] # ops[i] /\ NoValidSession(ops[i].token, now)) =>
            /\ ops'[i].pc = "resp" /\ ~ops'[i].ok /\ ops'[i].err = "401"
            /\ <<db_tasks, db_asg, db_pool>>' = <<db_tasks, db_asg, db_pool>>]_vars
  /\ [](\A i \in Slots :
          (ops[i].origin = "client" /\ ops[i].pc \notin {"auth", "resp"}) =>
            (ops[i].caller.ok /\ \E r \in access_code_sessions : r.session_token = ops[i].token))

\* a delete request with the admin's expired session was answered 401, and
\* the task is still there
C37_Witness ==
  \E i \in Slots :
    /\ ops[i].kind = "delete" /\ ops[i].pc = "resp" /\ ops[i].err = "401"
    /\ ops[i].token = "sA" /\ now > SessionExpiry
    /\ "t1" \in TaskIds(db_tasks)

-----------------------------------------------------------------------------
(* Claims about addTask (SpecAdd) *)

\* the calls of addTask that have not resolved: the request, or the reload
\* that follows it
AddsInFlight == {i \in Slots : ops[i].origin = "add"}

\* C38: at most one addTask call is unresolved at any time, and the lock is
\* held exactly while one is; a step taken while the lock is held starts no
\* create request; and the step that ends the call, after a failed request
\* or after the reload, releases the lock.
C38_OneCreateInFlight ==
  /\ [](Cardinality(AddsInFlight) <= 1 /\ (addLockRef <=> AddsInFlight # {}))
  /\ [][/\ addLockRef => \A i \in Slots : ops'[i].kind = "create" => ops[i].kind = "create"
        /\ \A i \in Slots : (ops[i].origin = "add" /\ ops'[i].kind = "none") => ~addLockRef']_vars

\* a create request of the page is in flight, the lock held, after an
\* earlier addTask call has created a task and reloaded the store
C38_Witness ==
  /\ addLockRef
  /\ \E i \in Slots : ops[i].kind = "create" /\ ops[i].origin = "add" /\ ops[i].pc = "req"
  /\ Len(tasks) = 1

-----------------------------------------------------------------------------
(* Claims about the assignment draft (SpecSync) *)

\* C39: whenever nothing is in flight and the store holds the tasks of a
\* reload that succeeded (a failed reload empties it), the draft of every
\* task of the store is the set of assignees the store shows for it.
C39_DraftEqualsStore ==
  ((\A k \in Slots : ops[k].kind = "none") /\ tasks # <<>>) =>
    \A t \in IdsOf(tasks) :
      t \in DOMAIN assignmentDraft /\ assignmentDraft[t] = StoreAssignees(tasks, t)

====
